---- MODULE Spec2Model ----
(***************************************************************************)
(* A state-machine model of biorad1sc_reader: the Reader object of         *)
(* reader.py (file header, data-block table, field walks, metadata tree)   *)
(* and the container decoding of parsing.py.                               *)
(*                                                                         *)
(* Conventions.                                                            *)
(*  - A bytes object is a sequence of numbers 0..255.  Python's b[i:j] is  *)
(*    Slice(b, i, j): 0-based, half open, clamped to the length.           *)
(*  - A Python value that may be None is a sequence of length <= 1:        *)
(*    None is << >>, a value v is << v >>.                                 *)
(*  - A dict is a function; a missing key is a key outside its DOMAIN.     *)
(*  - An operator that can raise returns a record with an "err" field,     *)
(*    "none" when it returns normally, otherwise the exception's name.     *)
(*  - The numbers of the checked inputs keep every unpacked uint32 below   *)
(*    2^31 (the top byte of a uint32 is below 128).                        *)
(***************************************************************************)
EXTENDS Integers, Sequences, FiniteSets, TLC

VARIABLES
    pc,             \* where the Reader is: "idle", or inside a call
    call,           \* the method called last (running while pc # "idle")
    err,            \* the exception the last call raised, or "none"
    ret,            \* the value the last call returned (None: << >>)
    filename,       \* self.filename
    in_bytes,       \* self.in_bytes
    data_start,     \* self.data_start
    data_len,       \* self.data_len
    endian,         \* self.endian
    img_size_x,     \* self.img_size_x
    img_size_y,     \* self.img_size_y
    img_data,       \* self.img_data
    file_header_end,\* local of _parse_file_header
    byte_idx,       \* local cursor of the running walk
    last_field,     \* field_info of the field read last by the running walk
    field_ids,      \* local of get_img_metadata2
    collections,    \* local of get_img_metadata2
    this_coll,      \* local of get_img_metadata2 (key of the open collection)
    data_types,     \* local of get_img_metadata2
    visited_ids,    \* the visited_ids list handed to parsing.py
    stack,          \* call stack of process_payload_data_container
    HAS_NUMPY,      \* the module global HAS_NUMPY of reader.py
    args,           \* invert and imgsc of the image method called last
    tiff            \* the image the call has handed to save_u16_to_tiff

vars == << pc, call, err, ret, filename, in_bytes, data_start, data_len,
           endian, img_size_x, img_size_y, img_data, file_header_end,
           byte_idx, last_field, field_ids, collections, this_coll,
           data_types, visited_ids, stack, HAS_NUMPY, args, tiff >>

None == << >>
Some(v) == << v >>
EmptyDict == << >>
Min(a, b) == IF a < b THEN a ELSE b

-----------------------------------------------------------------------------
(* bytes *)

\* Python b[i:j] for 0 <= i, 0 <= j
Slice(b, i, j) ==
    LET hi == Min(j, Len(b))
    IN  IF i >= hi THEN << >> ELSE SubSeq(b, i + 1, hi)

\* struct.unpack(endian + fmt * n, b) accepts b only when it holds n whole words
unpack_fits(b, w) == Len(b) % w = 0

\* unpack_uint16(b, "<"): the tuple of little-endian uint16s of b
unpack_uint16(b) ==
    [i \in 1..(Len(b) \div 2) |-> b[2*i - 1] + 256 * b[2*i]]

\* unpack_uint32(b, "<"): the tuple of little-endian uint32s of b
unpack_uint32(b) ==
    [i \in 1..(Len(b) \div 4) |->
        b[4*i - 3] + 256 * b[4*i - 2] + 65536 * b[4*i - 1] + 16777216 * b[4*i]]

\* b.decode("utf-8", "replace") on bytes that are ASCII or 0xFF: an ASCII byte
\* is its own character, 0xFF (never valid in UTF-8) becomes U+FFFD
unpack_string(b) ==
    [i \in 1..Len(b) |-> IF b[i] < 128 THEN b[i] ELSE 65533]

\* b.decode("utf-8", "ignore") on bytes that are ASCII or 0xFF: 0xFF is dropped
DropInvalid(b) == SelectSeq(b, LAMBDA x : x < 128)

decode_ignore(b) == DropInvalid(b)

\* b.rstrip(b"\x00")
RECURSIVE rstrip_nul(_)
rstrip_nul(b) ==
    IF b = << >> THEN << >>
    ELSE IF b[Len(b)] = 0 THEN rstrip_nul(SubSeq(b, 1, Len(b) - 1))
    ELSE b

\* s.startswith(p)
startswith(s, p) == Len(s) >= Len(p) /\ SubSeq(s, 1, Len(p)) = p

\* s.endswith(p)
endswith(s, p) ==
    Len(s) >= Len(p) /\ SubSeq(s, Len(s) - Len(p) + 1, Len(s)) = p

-----------------------------------------------------------------------------
(* reader.py: the field framer *)

\* with x as v: F(v)
With(x, F(_)) == F(x)

\* the same without the special case
field_len_fix_none(n) == n

\* field_len of 1 means field_len = 20
field_len_fix(n) == IF n = 1 THEN 20 ELSE n

\* Reader._process_field_header on the header bytes hdr = in_bytes[idx:idx+8]
process_field_header_bytes(hdr) ==
    IF ~unpack_fits(hdr, 2) THEN [err |-> "struct.error"]
    ELSE IF ~unpack_fits(hdr, 4) THEN [err |-> "struct.error"]
    ELSE IF Len(unpack_uint16(hdr)) < 2 \/ Len(unpack_uint32(hdr)) < 2 THEN
        [err |-> "IndexError"]
    ELSE [err |-> "none", type |-> unpack_uint16(hdr)[1],
          len |-> field_len_fix(unpack_uint16(hdr)[2]),
          id |-> unpack_uint32(hdr)[2]]

\* Reader._process_field_header
process_field_header(b, idx) ==
    process_field_header_bytes(Slice(b, idx, idx + 8))

\* a field_info dict; has_regions says whether the key 'regions' is set.
\* The keys the tree pass adds to Type 102 and Type 101 fields are read by
\* nothing and are left out.
FieldInfo(type, id, start, len, payload) ==
    [type |-> type, id |-> id, start |-> start, len |-> len,
     payload |-> payload, has_regions |-> FALSE, regions |-> << >>]

\* Reader._read_field_lite: (next byte_idx, field_info)
read_field_lite(b, idx) ==
    With(process_field_header(b, idx), LAMBDA h :
        IF h.err # "none" THEN [err |-> h.err]
        ELSE [err |-> "none",
              next |-> idx + h.len,
              field |-> FieldInfo(h.type, h.id, idx, h.len,
                                  Slice(b, idx + 8, idx + h.len))])

-----------------------------------------------------------------------------
(* reader.py: the file header *)

MAGIC == 44975      \* 0xafaf

\* "Intel Format"
IntelFormat == << 73, 110, 116, 101, 108, 32, 70, 111, 114, 109, 97, 116 >>

\* "Bio-Rad Scan File"
BioRadScanFile == << 66, 105, 111, 45, 82, 97, 100, 32, 83, 99, 97, 110, 32,
                     70, 105, 108, 101 >>

\* block_ptr_types of _parse_file_header: field type -> data block number
block_ptr_types ==
    (142 :> 0) @@ (143 :> 1) @@ (132 :> 2) @@ (133 :> 3) @@ (141 :> 4) @@
    (140 :> 5) @@ (126 :> 6) @@ (127 :> 7) @@ (128 :> 8) @@ (129 :> 9) @@
    (130 :> 10)

\* d[k] = v on a dict
DictSet(d, k, v) == [x \in (DOMAIN d) \cup {k} |-> IF x = k THEN v ELSE d[x]]

\* the magic number test of _parse_file_header
magic_ok(b) == unpack_uint16(Slice(b, 0, 2))[1] = MAGIC

\* the same test left out
biorad_id_unchecked(b) == TRUE

\* the Scan File ID text test of _parse_file_header
biorad_id_ok(b) == startswith(unpack_string(Slice(b, 56, 136)), BioRadScanFile)

\* the endian test of _parse_file_header: the value given to self.endian
endian_of(b) ==
    IF startswith(unpack_string(Slice(b, 32, 56)), IntelFormat)
    THEN "<" ELSE ">"

\* _parse_file_header up to its loop: the checks, and file_header_end.
\* endian is the value self.endian holds when the function leaves or goes on.
parse_file_header_start(b) ==
    IF ~unpack_fits(Slice(b, 0, 2), 2) THEN
        [err |-> "struct.error", endian |-> "<", file_header_end |-> 0]
    ELSE IF Len(unpack_uint16(Slice(b, 0, 2))) < 1 THEN
        [err |-> "IndexError", endian |-> "<", file_header_end |-> 0]
    ELSE IF ~magic_ok(b) THEN
        [err |-> "BioRadInvalidFileError", endian |-> "<",
         file_header_end |-> 0]
    ELSE IF ~biorad_id_ok(b) THEN
        [err |-> "BioRadInvalidFileError", endian |-> endian_of(b),
         file_header_end |-> 0]
    ELSE IF ~unpack_fits(Slice(b, 148, 152), 4) THEN
        [err |-> "struct.error", endian |-> endian_of(b),
         file_header_end |-> 0]
    ELSE IF Len(unpack_uint32(Slice(b, 148, 152))) < 1 THEN
        [err |-> "IndexError", endian |-> endian_of(b),
         file_header_end |-> 0]
    ELSE [err |-> "none", endian |-> endian_of(b),
          file_header_end |-> unpack_uint32(Slice(b, 148, 152))[1]]

\* the tables and the outcome of a turn of the loop of _parse_file_header
HeaderTurn(what, e, ds, dl, next, f) ==
    [what |-> what, err |-> e, ds |-> ds, dl |-> dl, next |-> next,
     field |-> f]

\* a turn of the loop of _parse_file_header, once field f has been read:
\* a block pointer fills the tables from the uint32s u of its payload
parse_file_header_field(f, u, idx, next, ds, dl) ==
    IF f.type \in DOMAIN block_ptr_types THEN
        IF ~unpack_fits(f.payload, 4) THEN
            HeaderTurn("raise", "struct.error", ds, dl, next, Some(f))
        ELSE IF Len(u) < 1 THEN
            HeaderTurn("raise", "IndexError", ds, dl, next, Some(f))
        ELSE IF Len(u) < 2 THEN
            HeaderTurn("raise", "IndexError",
                       DictSet(ds, block_ptr_types[f.type], u[1]), dl, next,
                       Some(f))
        ELSE IF next = idx THEN
            HeaderTurn("raise", "Exception",
                       DictSet(ds, block_ptr_types[f.type], u[1]),
                       DictSet(dl, block_ptr_types[f.type], u[2]), next,
                       Some(f))
        ELSE
            HeaderTurn("continue", "none",
                       DictSet(ds, block_ptr_types[f.type], u[1]),
                       DictSet(dl, block_ptr_types[f.type], u[2]), next,
                       Some(f))
    ELSE IF f.type = 0 THEN HeaderTurn("break", "none", ds, dl, next, Some(f))
    ELSE IF next = idx THEN
        HeaderTurn("raise", "Exception", ds, dl, next, Some(f))
    ELSE HeaderTurn("continue", "none", ds, dl, next, Some(f))

\* one turn of the loop of _parse_file_header on the field at idx:
\* what happens ("raise", "break", "continue"), and the tables after it
parse_file_header_turn(b, idx, ds, dl) ==
    With(read_field_lite(b, idx), LAMBDA r :
        IF r.err # "none" THEN HeaderTurn("raise", r.err, ds, dl, idx, None)
        ELSE parse_file_header_field(r.field, unpack_uint32(r.field.payload),
                                     idx, r.next, ds, dl))

-----------------------------------------------------------------------------
(* the files the Reader is run on *)

MaxTail == 2        \* most fields that follow the schema fields in block 0

U16(v) == << v % 256, v \div 256 >>
U32(v) == << v % 256, (v \div 256) % 256, (v \div 65536) % 256,
             v \div 16777216 >>
Zeros(n) == [i \in 1..n |-> 0]
PadTo(b, n) == b \o Zeros(n - Len(b))

RECURSIVE Concat(_)
Concat(ss) == IF ss = << >> THEN << >> ELSE Head(ss) \o Concat(Tail(ss))

\* a framed field: type, declared length, id, payload
FieldBytesLen(type, len, id, payload) ==
    U16(type) \o U16(len) \o U32(id) \o payload
FieldBytes(type, id, payload) ==
    FieldBytesLen(type, 8 + Len(payload), id, payload)
StringField(id, text) == FieldBytes(16, id, text \o << 0 >>)
Sentinel == FieldBytes(0, 0, << >>)

\* the field type of the pointer to data block k
PtrType(k) == CHOOSE t \in DOMAIN block_ptr_types : block_ptr_types[t] = k

\* a block-pointer field: {start, length, trailer}
PtrField(k, start, len, len1) ==
    FieldBytesLen(PtrType(k), IF len1 THEN 1 ELSE 20, 1000 + k,
                  U32(start) \o U32(len) \o Zeros(4))

\* the schema fields every data block 0 starts with: four labels, a
\* collection "c" (Type 102), its item schema (Type 101: field types 1000
\* "x" and 1001 "y", both laid out by data key 12, 4 bytes), and the data
\* key (Type 100: one Reference region "r" of one 4-byte word at offset 0)
Prelude ==
    Concat(<< StringField(1, << 99 >>), StringField(2, << 120 >>),
              StringField(3, << 121 >>), StringField(4, << 114 >>),
              FieldBytes(102, 10, Zeros(6) \o U16(2) \o U32(11) \o U32(1)),
              FieldBytes(101, 11,
                  U16(1000) \o Zeros(4) \o U16(1) \o U32(12) \o U32(4)
                      \o U32(2)
                  \o U16(1001) \o Zeros(4) \o U16(1) \o U32(12) \o U32(4)
                      \o U32(3)),
              FieldBytes(100, 12,
                  U16(15) \o U16(0) \o U32(1) \o U32(0) \o U32(4)
                      \o Zeros(4) \o U32(4) \o Zeros(2) \o U16(0)
                      \o Zeros(8)) >>)

\* the fields a tail is made of
Palette ==
    << StringField(5, << 97 >>),            \* 1: string "a", id 5
       StringField(5, << 98 >>),            \* 2: string "b", id 5 again
       FieldBytes(1000, 20, U32(5)),        \* 3: container "x" -> string 5
       FieldBytes(1000, 20, U32(21)),       \* 4: container "x" -> field 21
       FieldBytes(1001, 21, U32(0)),        \* 5: container "y", null ref
       FieldBytesLen(16, 0, 6, << >>),      \* 6: a field of declared length 0
       FieldBytes(7777, 7, << 1, 2 >>) >>   \* 7: a field of no known type

Tails == UNION { [1..n -> 1..Len(Palette)] : n \in 0..MaxTail }

TailBytes(tail) == Concat([i \in 1..Len(tail) |-> Palette[tail[i]]])

\* what a file is made from
FileDesc(cut, magic, tag, idtext, nptr, term, len1, tail, foot) ==
    [cut |-> cut, magic |-> magic, tag |-> tag, idtext |-> idtext,
     nptr |-> nptr, term |-> term, len1 |-> len1, tail |-> tail,
     foot |-> foot]

GoodFile(tail, foot) ==
    FileDesc(-1, TRUE, TRUE, TRUE, 11, "end", FALSE, tail, foot)

\* the fields data block 0 starts with, the fields of data block 7 and the
\* bytes of data block 10 of a file: the ones its description gives,
\* otherwise the schema fields, no fields and the two pixels 1, 2
SchemaBytes(d) == IF "pre" \in DOMAIN d THEN d.pre ELSE Prelude
InfoBytes(d) == IF "info" \in DOMAIN d THEN d.info ELSE << >>
PixelBytes(d) == IF "pix" \in DOMAIN d THEN d.pix ELSE << 1, 0, 2, 0 >>

HeaderLen(d) == 160 + 20 * d.nptr + (IF d.term = "end" THEN 0 ELSE 8)
Block0Len(d) ==
    8 + Len(SchemaBytes(d)) + Len(TailBytes(d.tail)) + 8 + d.foot
BlockLen(d, k) ==
    IF k = 0 THEN Block0Len(d)
    ELSE IF k = 10 THEN Len(PixelBytes(d))
    ELSE IF k = 7 THEN 16 + Len(InfoBytes(d)) + d.foot
    ELSE 16 + d.foot
RECURSIVE BlockStart(_, _)
BlockStart(d, k) ==
    IF k = 0 THEN HeaderLen(d) ELSE BlockStart(d, k - 1) + BlockLen(d, k - 1)

\* a data block: 8-byte header, fields, the type-0 sentinel, the footer
BlockBytes(d, k) ==
    IF k = 10 THEN PixelBytes(d)
    ELSE U32(BlockLen(d, k)) \o Zeros(4)
         \o (IF k = 0 THEN SchemaBytes(d) \o TailBytes(d.tail)
             ELSE IF k = 7 THEN InfoBytes(d) ELSE << >>)
         \o Sentinel \o Zeros(d.foot)

FileBytesWhole(d) ==
    (IF d.magic THEN U16(MAGIC) ELSE U16(MAGIC - 1)) \o Zeros(30)
    \o PadTo(IF d.tag THEN IntelFormat ELSE << 77, 97, 99 >>, 24)
    \o PadTo(IF d.idtext THEN BioRadScanFile ELSE << 255, 66, 105, 111 >>, 80)
    \o Zeros(12) \o U32(HeaderLen(d)) \o Zeros(8)
    \o Concat([k \in 1..d.nptr |->
                 PtrField(k - 1, BlockStart(d, k - 1), BlockLen(d, k - 1),
                          d.len1)])
    \o (IF d.term = "sentinel" THEN Sentinel
        ELSE IF d.term = "zero" THEN FieldBytesLen(16, 0, 9, << >>)
        ELSE << >>)
    \o Concat([k \in 1..11 |-> BlockBytes(d, k - 1)])

\* the bytes of the file: whole, or cut to its first d.cut bytes
FileBytes(d) ==
    IF d.cut >= 0 THEN Slice(FileBytesWhole(d), 0, d.cut)
    ELSE FileBytesWhole(d)

HeaderFiles ==
    { FileDesc(-1, m, t, i, 11, "end", FALSE, << >>, 2) :
        m \in BOOLEAN, t \in BOOLEAN, i \in BOOLEAN }
    \cup { FileDesc(-1, TRUE, TRUE, TRUE, n, term, l, << >>, 2) :
             n \in {0, 5, 10, 11}, term \in {"end", "sentinel", "zero"},
             l \in BOOLEAN }
    \cup { FileDesc(c, m, TRUE, TRUE, 11, "end", FALSE, << >>, 2) :
             c \in {0, 1, 2, 60, 150, 165}, m \in BOOLEAN }

BodyFiles ==
    { GoodFile(tail, 2) : tail \in Tails }
    \cup { GoodFile(tail, 0) : tail \in { t \in Tails : Len(t) <= 1 } }

\* "Number Of Pixels", "Scanner Name: s"
NumberOfPixels == << 78, 117, 109, 98, 101, 114, 32, 79, 102, 32, 80, 105, 120, 101, 108, 115 >>
ScannerName == << 83, 99, 97, 110, 110, 101, 114, 32, 78, 97, 109, 101, 58, 32, 115 >>

\* the decimal digits of n < 100
Digits(n) ==
    IF n < 10 THEN << 48 + n >> ELSE << 48 + (n \div 10), 48 + (n % 10) >>

\* the string fields of data block 7 of an image file: the scanner name and
\* "Number Of Pixels: (<x> x <y>)", x and y being texts
InfoFields(x, y) ==
    StringField(30, ScannerName)
    \o StringField(31, NumberOfPixels \o << 58, 32, 40 >> \o x
                           \o << 32, 120, 32 >> \o y \o << 41 >>)

\* the bytes of the little-endian uint16 pixels v
PixBytes(v) == Concat([i \in 1..Len(v) |-> U16(v[i])])

\* a well-formed file with the fields info in data block 7 and the bytes pix
\* in data block 10
ImageFile(info, pix) == [info |-> info, pix |-> pix] @@ GoodFile(<< >>, 2)

\* the image files the Reader is opened on: 2 x 1 and 1 x 2 images of two
\* pixels
LifecycleImages ==
    { ImageFile(InfoFields(Digits(d[1]), Digits(d[2])), PixBytes(v)) :
        d \in { << 2, 1 >>, << 1, 2 >> },
        v \in { << 1, 2 >>, << 40000, 0 >> } }

\* well-formed files whose data block 0 holds no schema fields: its first
\* field is one of no known type, or a data container
BareFiles == { [pre |-> << >>] @@ GoodFile(tail, 2) : tail \in {<< 7 >>, << 5 >>} }

\* a second collection "x" (Type 102, id 13) and its item schema (Type 101,
\* id 14: field type 1001 is "x" here, laid out by data key 12, and there is
\* no field type 1000)
SecondCollection == FieldBytes(102, 13, Zeros(6) \o U16(1) \o U32(14) \o U32(2))
SecondSchema ==
    FieldBytes(101, 14,
        U16(1001) \o Zeros(4) \o U16(1) \o U32(12) \o U32(4) \o U32(2))

\* well-formed files with the second collection after the schema fields,
\* with and without its item schema, and one data container after it
TwoCollectionFiles ==
    { [pre |-> Prelude \o more] @@ GoodFile(tail, 2) :
        more \in { SecondCollection, SecondCollection \o SecondSchema },
        tail \in { << 3 >>, << 5 >> } }

\* well-formed files whose data container "y" (id 21) comes before the
\* data key 12 that lays it out: the schema fields without their last
\* field, the container, the data key (a field of 8 + 36 bytes)
LateKeyFiles ==
    { [pre |-> SubSeq(Prelude, 1, Len(Prelude) - 44) \o Palette[5]
               \o SubSeq(Prelude, Len(Prelude) - 43, Len(Prelude))]
      @@ GoodFile(tail, 2) : tail \in { << >>, << 1 >> } }

FileNames ==
    HeaderFiles \cup BodyFiles \cup LifecycleImages \cup BareFiles
        \cup TwoCollectionFiles \cup LateKeyFiles

\* the content of every file
Files == [f \in FileNames |-> FileBytes(f)]

-----------------------------------------------------------------------------
(* reader.py: the schema fields and the container decoding of the Reader *)

\* is_ascii of reader.py
is_ascii(b) ==
    \A i \in 1..Len(b) : b[i] \in {0, 9, 10, 13} \/ (b[i] >= 32 /\ b[i] < 127)

\* unpack_uint64(b, "<"); a uint64 is kept as its halves << low, high >>
unpack_uint64(b) ==
    [i \in 1..(Len(b) \div 8) |->
        << unpack_uint32(SubSeq(b, 8*i - 7, 8*i - 4))[1],
           unpack_uint32(SubSeq(b, 8*i - 3, 8*i))[1] >>]

\* field_ids[ref]['payload'].rstrip(b"\x00").decode('utf-8', 'ignore')
label_of(fids, ref) == decode_ignore(rstrip_nul(fids[ref].payload))

\* Reader._process_payload_type102
reader_process_payload_type102(payload, fids) ==
    LET u16 == unpack_uint16(payload)
        u32 == unpack_uint32(payload)
    IN  IF Len(payload) # 16 THEN [err |-> "AssertionError"]
        ELSE IF u32[4] \notin DOMAIN fids THEN [err |-> "KeyError"]
        ELSE [err |-> "none",
              collection_num_items |-> u16[4],
              collection_label |-> label_of(fids, u32[4]),
              collection_ref |-> u32[3]]

\* the loop of Reader._process_payload_type101 from data item i on
RECURSIVE reader_type101_items(_, _, _, _, _)
reader_type101_items(u16, u32, fids, i, items) ==
    IF i >= Len(u32) \div 5 THEN [err |-> "none", items |-> items]
    ELSE IF u32[5*i + 5] \notin DOMAIN fids THEN [err |-> "KeyError"]
    ELSE IF u16[10*i + 1] \in DOMAIN items THEN [err |-> "AssertionError"]
    ELSE reader_type101_items(u16, u32, fids, i + 1,
            DictSet(items, u16[10*i + 1],
                    [num_regions |-> u16[10*i + 4],
                     data_key_ref |-> u32[5*i + 3],
                     total_bytes |-> u32[5*i + 4],
                     label |-> label_of(fids, u32[5*i + 5])]))

\* Reader._process_payload_type101
reader_process_payload_type101(payload, fids) ==
    IF Len(payload) % 20 # 0 THEN [err |-> "AssertionError"]
    ELSE reader_type101_items(unpack_uint16(payload), unpack_uint32(payload),
                              fids, 0, EmptyDict)

\* the loop of Reader._process_payload_type100 from data item i on
RECURSIVE reader_type100_regions(_, _, _, _, _)
reader_type100_regions(u16, u32, fids, i, regions) ==
    IF i >= Len(u32) \div 9 THEN [err |-> "none", regions |-> regions]
    ELSE IF u32[9*i + 4] \notin DOMAIN fids THEN [err |-> "KeyError"]
    ELSE reader_type100_regions(u16, u32, fids, i + 1,
            Append(regions,
                   [data_type |-> u16[18*i + 1],
                    label |-> label_of(fids, u32[9*i + 4]),
                    index |-> u16[18*i + 2],
                    num_words |-> u32[9*i + 2],
                    byte_offset |-> u32[9*i + 3],
                    word_size |-> u32[9*i + 6],
                    ref_field_type |-> u16[18*i + 14]]))

\* Reader._process_payload_type100
reader_process_payload_type100(payload, fids) ==
    IF Len(payload) % 36 # 0 THEN [err |-> "AssertionError"]
    ELSE reader_type100_regions(unpack_uint16(payload),
                                unpack_uint32(payload), fids, 0, << >>)

\* decoded values: proc and interp are [kind, val] with val a sequence
NoValue == [kind |-> "none", val |-> << >>]
Value(kind, val) == [kind |-> kind, val |-> val]
RegionData(raw, proc, interp) ==
    [err |-> "none", raw |-> raw, proc |-> proc, interp |-> interp]

\* Reader._process_data_region once the region's bytes raw are cut out
reader_process_region_bytes(region, raw, fids) ==
    IF region.data_type \in {1, 2} THEN
        IF is_ascii(raw)
        THEN RegionData(raw, Value("str", decode_ignore(rstrip_nul(raw))),
                        NoValue)
        ELSE RegionData(raw, Value("ints", raw), NoValue)
    ELSE IF region.data_type \in {3, 4} THEN
        IF ~unpack_fits(raw, 2) THEN [err |-> "struct.error"]
        ELSE RegionData(raw, Value("ints", unpack_uint16(raw)), NoValue)
    ELSE IF region.data_type \in {5, 6, 9} THEN
        IF ~unpack_fits(raw, 4) THEN [err |-> "struct.error"]
        ELSE IF endswith(region.label, << 116, 105, 109, 101 >>)   \* "time"
        THEN IF Len(raw) < 4 THEN [err |-> "IndexError"]
             ELSE RegionData(raw, Value("ints", unpack_uint32(raw)),
                             Value("time", << unpack_uint32(raw)[1] >>))
        ELSE RegionData(raw, Value("ints", unpack_uint32(raw)), NoValue)
    ELSE IF region.data_type = 7 THEN
        IF ~unpack_fits(raw, 8) THEN [err |-> "struct.error"]
        ELSE RegionData(raw, Value("ints", unpack_uint64(raw)), NoValue)
    ELSE IF region.data_type \in {15, 17} THEN
        IF ~unpack_fits(raw, 4) THEN [err |-> "struct.error"]
        ELSE IF Len(raw) < 4 THEN [err |-> "IndexError"]
        ELSE With(unpack_uint32(raw)[1], LAMBDA ref :
            IF ref = 0 THEN
                RegionData(raw, Value("ints", unpack_uint32(raw)), NoValue)
            ELSE IF ref \notin DOMAIN fids THEN [err |-> "KeyError"]
            ELSE IF fids[ref].type = 16 THEN
                RegionData(raw, Value("ints", unpack_uint32(raw)),
                    Value("str",
                          decode_ignore(Slice(fids[ref].payload, 0,
                                              Len(fids[ref].payload) - 1))))
            ELSE RegionData(raw, Value("ints", unpack_uint32(raw)),
                            Value("REF", << >>)))
    ELSE RegionData(raw, NoValue, NoValue)

\* Reader._process_data_region
reader_process_data_region(region, payload, fids) ==
    reader_process_region_bytes(region,
        Slice(payload, region.byte_offset,
              region.byte_offset + region.word_size * region.num_words),
        fids)

\* the loop of Reader._process_payload_data_container from region k on
RECURSIVE reader_container_regions(_, _, _, _, _)
reader_container_regions(data_key, k, payload, fids, data_dict) ==
    IF k > Len(data_key) THEN [err |-> "none", data |-> data_dict]
    ELSE With(reader_process_data_region(data_key[k], payload, fids),
              LAMBDA rd :
             IF rd.err # "none" THEN [err |-> rd.err]
             ELSE reader_container_regions(data_key, k + 1, payload, fids,
                      DictSet(data_dict, data_key[k].label,
                              [raw |-> rd.raw, proc |-> rd.proc,
                               interp |-> rd.interp])))

\* Reader._process_payload_data_container
reader_process_payload_data_container(field_info, dtypes, fids) ==
    IF field_info.type \notin DOMAIN dtypes THEN [err |-> "KeyError"]
    ELSE LET ref == dtypes[field_info.type].data_key_ref
         IN  IF ref \notin DOMAIN fids THEN [err |-> "KeyError"]
             ELSE IF ~fids[ref].has_regions THEN [err |-> "KeyError"]
             ELSE reader_container_regions(fids[ref].regions, 1,
                                           field_info.payload, fids,
                                           EmptyDict)

-----------------------------------------------------------------------------
(* reader.py: the walks of get_img_metadata2 *)

\* Reader._get_next_data_block_end from block i on: the end of the first
\* data block that ends after idx
RECURSIVE next_data_block_end_from(_, _, _, _)
next_data_block_end_from(idx, ds, dl, i) ==
    IF i > 10 THEN [err |-> "UnboundLocalError"]
    ELSE IF i \notin DOMAIN ds \/ i \notin DOMAIN dl THEN [err |-> "KeyError"]
    ELSE IF idx < ds[i] + dl[i] THEN
        [err |-> "none", block_num |-> i, end_idx |-> ds[i] + dl[i]]
    ELSE next_data_block_end_from(idx, ds, dl, i + 1)

\* Reader._get_next_data_block_end
get_next_data_block_end(idx, ds, dl) == next_data_block_end_from(idx, ds, dl, 0)

Raise(e) == [what |-> "raise", err |-> e]

\* the locals a turn of the first loop leaves behind
IndexGoOn(f, next, fids) ==
    [what |-> "continue", err |-> "none", field |-> f, next |-> next,
     field_ids |-> DictSet(fids, f.id, f)]

\* one turn of the first loop of get_img_metadata2 (the index pass)
index_turn(b, idx, ds, dl, fids) ==
    With(read_field_lite(b, idx), LAMBDA r :
        IF r.err # "none" THEN Raise(r.err)
        ELSE IF r.field.type = 0 THEN
            With(get_next_data_block_end(r.next, ds, dl), LAMBDA e :
                IF e.err # "none" THEN Raise(e.err)
                ELSE IndexGoOn(r.field, e.end_idx + 8, fids))
        ELSE IndexGoOn(r.field, r.next, fids))

\* the locals a turn of the second loop leaves behind
TreeGoOn(f, next, fids, colls, coll, dtypes) ==
    [what |-> "continue", err |-> "none", field |-> f, next |-> next,
     field_ids |-> fids, collections |-> colls, this_coll |-> coll,
     data_types |-> dtypes]

\* a top-level item: data is what the Reader stores under the item's label,
\* id names the field it was decoded from
Item(id, data) == [id |-> id, data |-> data]

\* field_info.update(regions) on the entry of field_ids
WithRegions(f, regions) ==
    [f EXCEPT !.has_regions = TRUE, !.regions = regions]

\* the item put into every collection
AddItemToAll(colls, coll, label, item) ==
    [c \in DOMAIN colls |-> DictSet(colls[c], label, item)]

\* collections[this_coll][label] = item
AddItem(colls, coll, label, item) ==
    DictSet(colls, coll, DictSet(colls[coll], label, item))

\* a turn of the second loop of get_img_metadata2 once field f has been read
\* and field_ids[f.id] = f has been done; coll and dtypes are None while
\* this_coll and data_types are unbound
tree_field(f, next, ds, dl, fids, colls, coll, dtypes) ==
    IF f.type = 0 THEN
        With(get_next_data_block_end(next, ds, dl), LAMBDA e :
            IF e.err # "none" THEN Raise(e.err)
            ELSE TreeGoOn(f, e.end_idx + 8, fids, colls, coll, dtypes))
    ELSE IF f.type \in {2, 16} THEN
        TreeGoOn(f, next, fids, colls, coll, dtypes)
    ELSE IF f.type = 102 THEN
        With(reader_process_payload_type102(f.payload, fids), LAMBDA p :
            IF p.err # "none" THEN Raise(p.err)
            ELSE TreeGoOn(f, next, fids,
                          DictSet(colls, p.collection_label, EmptyDict),
                          Some(p.collection_label), Some(EmptyDict)))
    ELSE IF f.type = 101 THEN
        With(reader_process_payload_type101(f.payload, fids), LAMBDA p :
            IF p.err # "none" THEN Raise(p.err)
            ELSE TreeGoOn(f, next, fids, colls, coll, Some(p.items)))
    ELSE IF f.type = 100 THEN
        With(reader_process_payload_type100(f.payload, fids), LAMBDA p :
            IF p.err # "none" THEN Raise(p.err)
            ELSE TreeGoOn(f, next,
                          DictSet(fids, f.id, WithRegions(f, p.regions)),
                          colls, coll, dtypes))
    ELSE IF dtypes = None THEN Raise("UnboundLocalError")
    ELSE IF f.type \in DOMAIN dtypes[1] THEN
        With(reader_process_payload_data_container(f, dtypes[1], fids),
             LAMBDA dc :
            IF dc.err # "none" THEN Raise(dc.err)
            ELSE IF coll = None THEN Raise("UnboundLocalError")
            ELSE TreeGoOn(f, next, fids,
                          AddItem(colls, coll[1], dtypes[1][f.type].label,
                                  Item(f.id, dc.data)),
                          coll, dtypes))
    ELSE Raise("Exception")

\* one turn of the second loop of get_img_metadata2 (the tree pass)
tree_turn(b, idx, ds, dl, fids0, colls, coll, dtypes) ==
    With(read_field_lite(b, idx), LAMBDA r :
        IF r.err # "none" THEN Raise(r.err)
        ELSE tree_field(r.field, r.next, ds, dl,
                        DictSet(fids0, r.field.id, r.field), colls, coll,
                        dtypes))

-----------------------------------------------------------------------------
(* reader.py: the image methods *)

\* s.find(p) from position i on: the 1-based position of the first
\* occurrence of p in s, 0 when there is none
RECURSIVE find_from(_, _, _)
find_from(s, p, i) ==
    IF i + Len(p) - 1 > Len(s) THEN 0
    ELSE IF SubSeq(s, i, i + Len(p) - 1) = p THEN i
    ELSE find_from(s, p, i + 1)

find(s, p) == find_from(s, p, 1)

\* s.split(p)
RECURSIVE split(_, _)
split(s, p) ==
    With(find(s, p), LAMBDA at :
        IF at = 0 THEN << s >>
        ELSE << SubSeq(s, 1, at - 1) >>
             \o split(SubSeq(s, at + Len(p), Len(s)), p))

\* s.strip(chars) for a set of characters
RECURSIVE strip(_, _)
strip(s, chars) ==
    IF s = << >> THEN s
    ELSE IF s[1] \in chars THEN strip(Tail(s), chars)
    ELSE IF s[Len(s)] \in chars THEN strip(SubSeq(s, 1, Len(s) - 1), chars)
    ELSE s

\* the number a text of decimal digits stands for
RECURSIVE digits_value(_)
digits_value(s) ==
    IF s = << >> THEN 0
    ELSE 10 * digits_value(SubSeq(s, 1, Len(s) - 1)) + (s[Len(s)] - 48)

\* int(s) of a text s of digits, signs, spaces and letters: blanks around
\* the number are dropped, one sign may lead, and digits must follow
int_digits(s, sign) ==
    IF s = << >> \/ \E i \in 1..Len(s) : s[i] \notin 48..57
    THEN [err |-> "ValueError"]
    ELSE [err |-> "none", val |-> sign * digits_value(s)]

int_stripped(s) ==
    IF s # << >> /\ s[1] = 45 THEN int_digits(Tail(s), -1)
    ELSE IF s # << >> /\ s[1] = 43 THEN int_digits(Tail(s), 1)
    ELSE int_digits(s, 1)

int(s) == int_stripped(strip(s, {32}))

\* "Quantity One", "path"
QuantityOne == << 81, 117, 97, 110, 116, 105, 116, 121, 32, 79, 110, 101 >>
path == << 112, 97, 116, 104 >>

\* the key and the item a Type 16 field with text info_str adds to metadata
\* in get_img_metadata; at is info_str.find(": ")
info_entry_at(info_str, at) ==
    IF at > 0 THEN
        [key |-> SubSeq(info_str, 1, at - 1),
         val |-> SubSeq(info_str, at + 2, Len(info_str))]
    ELSE IF startswith(info_str, QuantityOne) THEN
        [key |-> QuantityOne, val |-> info_str]
    ELSE IF \E i \in 1..Len(info_str) : info_str[i] = 92 THEN
        [key |-> path, val |-> info_str]
    ELSE [key |-> info_str, val |-> info_str]

info_entry(info_str) == info_entry_at(info_str, find(info_str, << 58, 32 >>))

\* metadata after metadata[key] = item of the entry e
MetadataSet(md, e) == DictSet(md, e.key, e.val)

\* the loop of get_img_metadata from byte_idx = idx on, end being
\* data_start[7] + data_len[7]: the metadata it returns, the exception it
\* raises, or "hang" when it reads the same field for ever
RECURSIVE img_metadata_from(_, _, _, _, _, _)
RECURSIVE img_metadata_field(_, _, _, _, _, _, _, _)
img_metadata_field(b, f, next, idx, end, ds, dl, md) ==
    IF f.type = 0 THEN
        With(get_next_data_block_end(next, ds, dl), LAMBDA e :
            IF e.err # "none" THEN [err |-> e.err]
            ELSE img_metadata_from(b, e.end_idx + 8, end, ds, dl, md))
    ELSE IF f.type = 16 THEN
        IF \E i \in 1..(Len(f.payload) - 1) : f.payload[i] >= 128
        THEN [err |-> "UnicodeDecodeError"]
        ELSE IF next = idx THEN [err |-> "hang"]
        ELSE img_metadata_from(b, next, end, ds, dl,
                 MetadataSet(md, info_entry(Slice(f.payload, 0,
                                                  Len(f.payload) - 1))))
    ELSE IF next = idx THEN [err |-> "hang"]
    ELSE img_metadata_from(b, next, end, ds, dl, md)

img_metadata_from(b, idx, end, ds, dl, md) ==
    IF ~(idx < end) THEN [err |-> "none", metadata |-> md]
    ELSE With(read_field_lite(b, idx), LAMBDA r :
            IF r.err # "none" THEN [err |-> r.err]
            ELSE img_metadata_field(b, r.field, r.next, idx, end, ds, dl, md))

\* Reader.get_img_metadata
get_img_metadata(b, ds, dl) ==
    IF 7 \notin DOMAIN ds \/ 7 \notin DOMAIN dl THEN [err |-> "KeyError"]
    ELSE img_metadata_from(b, ds[7] + 8, ds[7] + dl[7], ds, dl, EmptyDict)

\* the end of Reader._get_img_size on the parts of
\* img_size.strip('()').split(' x '): the exception it raises and the
\* attributes it has set by then
img_size_of_ints(ix, iy) ==
    IF ix.err # "none" THEN [err |-> ix.err, x |-> None, y |-> None]
    ELSE IF iy.err # "none" THEN
        [err |-> iy.err, x |-> Some(ix.val), y |-> None]
    ELSE [err |-> "none", x |-> Some(ix.val), y |-> Some(iy.val)]

img_size_of_parts(parts) ==
    IF Len(parts) # 2 THEN [err |-> "ValueError", x |-> None, y |-> None]
    ELSE img_size_of_ints(int(parts[1]), int(parts[2]))

\* Reader._get_img_size, m being what get_img_metadata gives
get_img_size_of(m) ==
    IF m.err # "none" THEN [err |-> m.err, x |-> None, y |-> None]
    ELSE IF NumberOfPixels \notin DOMAIN m.metadata THEN
        [err |-> "KeyError", x |-> None, y |-> None]
    ELSE img_size_of_parts(split(strip(m.metadata[NumberOfPixels], {40, 41}),
                                 << 32, 120, 32 >>))

get_img_size(b, ds, dl) == get_img_size_of(get_img_metadata(b, ds, dl))

\* the uint16s of b in the byte order self.endian
unpack_uint16_endian(b, e) ==
    [i \in 1..(Len(b) \div 2) |->
        IF e = "<" THEN b[2*i - 1] + 256 * b[2*i]
        ELSE 256 * b[2*i - 1] + b[2*i]]

\* Python b[i:j] for 0 <= j and any i: a negative i counts from the end
PySlice(b, i, j) ==
    Slice(b, IF i >= 0 THEN i ELSE IF Len(b) + i > 0 THEN Len(b) + i ELSE 0, j)

\* the rows of raw, rowsz to a row, taken in the first row order
rows_unturned(raw, rowsz) == raw

\* img_data[img_data_idx] of get_img_data with numpy, for rowsz # 0: the
\* index array is filled for the len(img_data) // rowsz whole rows and is 0
\* elsewhere
rows_numpy(raw, rowsz) ==
    [p \in 1..Len(raw) |->
        IF rowsz > 0 /\ p - 1 < (Len(raw) \div rowsz) * rowsz
        THEN raw[Len(raw) - (((p - 1) \div rowsz) + 1) * rowsz
                 + ((p - 1) % rowsz) + 1]
        ELSE raw[1]]

\* the loop of get_img_data without numpy, for img_size_x # 0:
\* for i in range(len(img_data), 0, -img_size_x)
RECURSIVE rows_python(_, _, _)
rows_python(raw, i, w) ==
    IF w < 0 \/ i <= 0 THEN << >>
    ELSE PySlice(raw, i - w, i) \o rows_python(raw, i - w, w)

\* what get_img_data leaves in self.img_data when it is None at the call,
\* or the exception raised; blk is in_bytes[img_start:img_end], n is
\* data_len[10], w is img_size_x.  data is None when self.img_data is not
\* assigned.
img_rows_numpy(blk, e, w) ==
    IF Len(blk) % 2 # 0 THEN [err |-> "ValueError", data |-> None]
    ELSE IF w = 0 THEN [err |-> "ZeroDivisionError", data |-> None]
    ELSE [err |-> "none",
          data |-> Some(rows_numpy(unpack_uint16_endian(blk, e), w))]

img_rows_python(blk, n, e, w) ==
    IF Len(blk) # 2 * (n \div 2) THEN [err |-> "struct.error", data |-> None]
    ELSE IF w = 0 THEN [err |-> "ValueError", data |-> Some(<< >>)]
    ELSE [err |-> "none",
          data |-> Some(rows_python(unpack_uint16_endian(blk, e),
                                    Len(blk) \div 2, w))]

img_rows(b, ds, dl, e, w, numpy) ==
    IF 10 \notin DOMAIN ds \/ 10 \notin DOMAIN dl THEN
        [err |-> "KeyError", data |-> None]
    ELSE IF numpy THEN img_rows_numpy(Slice(b, ds[10], ds[10] + dl[10]), e, w)
    ELSE img_rows_python(Slice(b, ds[10], ds[10] + dl[10]), dl[10], e, w)

\* 2**16 - 1 - x
invert_pixel(x) == 65535 - x

\* inversion left out
invert_data_none(data) == data

\* [2**16-1-x for x in self.img_data], 2**16 - 1 - self.img_data
invert_data(data) == [i \in 1..Len(data) |-> invert_pixel(data[i])]

\* the attributes after _get_img_size: r.x and r.y are None where it has
\* set nothing
img_size_merge(r, sx, sy) ==
    [err |-> r.err,
     x |-> IF r.x # None THEN r.x ELSE sx,
     y |-> IF r.y # None THEN r.y ELSE sy]

\* "if self.img_size_x or self.img_size_y is None: self._get_img_size()"
img_size_step(b, ds, dl, sx, sy) ==
    IF (sx # None /\ sx[1] # 0) \/ sy = None
    THEN img_size_merge(get_img_size(b, ds, dl), sx, sy)
    ELSE [err |-> "none", x |-> sx, y |-> sy]

\* self.img_data after "if self.img_data is None: ..."; r is what img_rows
\* gives
img_data_merge(r, sz, cache) ==
    [err |-> r.err, x |-> sz.x, y |-> sz.y,
     cache |-> IF r.data # None THEN r.data ELSE cache]

\* the cached rows turned once more by every later call
img_data_step_turned(sz, b, ds, dl, e, cache, numpy) ==
    IF sz.err # "none"
    THEN [err |-> sz.err, x |-> sz.x, y |-> sz.y, cache |-> cache]
    ELSE IF cache = None
    THEN img_data_merge(img_rows(b, ds, dl, e, sz.x[1], numpy), sz, cache)
    ELSE [err |-> sz.err, x |-> sz.x, y |-> sz.y,
          cache |-> Some([i \in 1..Len(cache[1]) |->
                             cache[1][Len(cache[1]) + 1 - i]])]
img_data_step(sz, b, ds, dl, e, cache, numpy) ==
    IF sz.err # "none" \/ cache # None THEN
        [err |-> sz.err, x |-> sz.x, y |-> sz.y, cache |-> cache]
    ELSE img_data_merge(img_rows(b, ds, dl, e, sz.x[1], numpy), sz, cache)

\* Reader.get_img_data up to its return: the exception raised and the
\* attributes img_size_x, img_size_y, img_data after it
get_img_data_run(b, ds, dl, e, sx, sy, cache, numpy) ==
    img_data_step(img_size_step(b, ds, dl, sx, sy), b, ds, dl, e, cache,
                  numpy)

\* the img_data get_img_data returns
img_data_returned(cache, invert) ==
    IF invert THEN invert_data(cache) ELSE cache

\* min(img_data), max(img_data)
MinOf(data) == CHOOSE m \in { data[i] : i \in 1..Len(data) } :
                  \A i \in 1..Len(data) : m <= data[i]
MaxOf(data) == CHOOSE m \in { data[i] : i \in 1..Len(data) } :
                  \A i \in 1..Len(data) : m >= data[i]

\* imgsc is the fraction sc[1] / sc[2].  With lo = min and hi = max of the
\* data, (x - img_min) / img_span is ScaleNum / ScaleDen:
\* img_span = (hi - lo) * imgsc, and img_min is lo, or hi - img_span when
\* inverting
ScaleDen(lo, hi, sc) == (hi - lo) * sc[1]
ScaleNum(x, lo, hi, sc, invert) ==
    IF invert THEN (x - hi) * sc[2] + (hi - lo) * sc[1]
    ELSE (x - lo) * sc[2]

\* a * (2**16-1) // b and a * (2**16-1) % b for a >= 0, b > 0, by way of
\* 65535 = 255 * 257
mul65535_div(a, b) ==
    ((a * 255) \div b) * 257 + ((((a * 255) % b) * 257) \div b)
mul65535_mod(a, b) == (((a * 255) % b) * 257) % b

\* the same clipped to the int16 range
scaled_clipped_int16(a, b) ==
    IF a <= 0 THEN 0 ELSE Min(32767, mul65535_div(a, b))

\* min(max(int(a * (2**16-1) / b), 0), 2**16-1): int() cuts toward zero
scaled_clipped(a, b) ==
    IF a <= 0 THEN 0 ELSE Min(65535, mul65535_div(a, b))

\* the int32 product (img_data - img_min) * (2**16-1) of the numpy path has
\* wrapped to a negative number
int32_wraps(d) == d > 2147483647 \div 65535

\* img_data_scale of save_img_as_tiff_sc for img_span # 0.  With numpy and
\* no inversion img_min is a uint16 and the product is an int32 array; in
\* the other cases the arithmetic is in floats
img_data_scale(data, lo, hi, sc, invert, numpy) ==
    [i \in 1..Len(data) |->
        IF numpy /\ ~invert /\ int32_wraps(data[i] - lo) THEN 0
        ELSE scaled_clipped(ScaleNum(data[i], lo, hi, sc, invert),
                            ScaleDen(lo, hi, sc))]

\* what a NaN becomes in astype('uint16'): undefined, 0 on common builds
NanAsUint16 == {0, 65535}

\* save_u16_to_tiff up to img_out.frombytes(outpil): the size of the image
\* and outpil, the little-endian bytes of the pixels
save_u16_to_tiff(u16in, size) == [size |-> size, data |-> PixBytes(u16in)]

-----------------------------------------------------------------------------
(* the Reader as a state machine *)

\* the locals of a call that has ended
NoLocals ==
    /\ file_header_end' = 0
    /\ byte_idx' = 0
    /\ last_field' = None
    /\ field_ids' = EmptyDict
    /\ collections' = EmptyDict
    /\ this_coll' = None
    /\ data_types' = None
    /\ visited_ids' = << >>
    /\ stack' = << >>

MetaLocalsUnchanged ==
    UNCHANGED << field_ids, collections, this_coll, data_types, visited_ids,
                 stack >>

AttrsUnchanged ==
    UNCHANGED << filename, in_bytes, data_start, data_len, endian,
                 img_size_x, img_size_y, img_data >>

\* what only the image methods touch
ImageFixed == UNCHANGED << HAS_NUMPY, args, tiff >>

\* the call ends: it raises e ("none": it returns v)
Leave(e, v) ==
    /\ pc' = "idle"
    /\ err' = e
    /\ ret' = v
    /\ NoLocals

\* Reader.__init__ with no file name
Init ==
    /\ pc = "idle" /\ call = "__init__" /\ err = "none" /\ ret = None
    /\ filename = None /\ in_bytes = None
    /\ data_start = None /\ data_len = None
    /\ endian = "<"
    /\ img_size_x = None /\ img_size_y = None /\ img_data = None
    /\ file_header_end = 0 /\ byte_idx = 0 /\ last_field = None
    /\ field_ids = EmptyDict /\ collections = EmptyDict
    /\ this_coll = None /\ data_types = None
    /\ visited_ids = << >> /\ stack = << >>
    /\ HAS_NUMPY \in BOOLEAN /\ args = None /\ tiff = None

\* the pixels left where they are
img_data_kept == img_data

\* Reader.__init__: self.img_data = None
img_data_init == None

\* Reader.reset
reset ==
    /\ pc = "idle"
    /\ call' = "reset"
    /\ filename' = None /\ in_bytes' = None
    /\ data_start' = None /\ data_len' = None
    /\ endian' = "<"
    /\ img_size_x' = None /\ img_size_y' = None
    /\ img_data' = img_data_init
    /\ tiff' = None /\ UNCHANGED << HAS_NUMPY, args >>
    /\ Leave("none", None)

\* Reader.open_file, and _parse_file_header up to its loop
open_file(f) ==
    \E r \in {parse_file_header_start(Files[f])} :
        /\ pc = "idle"
        /\ call' = "open_file"
        /\ tiff' = None /\ UNCHANGED << HAS_NUMPY, args >>
        /\ filename' = Some(f) /\ in_bytes' = Some(Files[f])
        /\ data_start' = Some(EmptyDict) /\ data_len' = Some(EmptyDict)
        /\ endian' = r.endian
        /\ img_size_x' = None /\ img_size_y' = None
        /\ img_data' = img_data_init
        /\ IF r.err # "none" THEN Leave(r.err, None)
           ELSE /\ pc' = "header"
                /\ err' = "none" /\ ret' = None
                /\ file_header_end' = r.file_header_end
                /\ byte_idx' = 160
                /\ last_field' = None
                /\ MetaLocalsUnchanged

\* the loop of _parse_file_header: its test and one turn
parse_file_header_loop ==
    /\ pc = "header"
    /\ UNCHANGED << call, filename, in_bytes, endian, img_size_x, img_size_y,
                    img_data >>
    /\ ImageFixed
    /\ IF ~(byte_idx < file_header_end) THEN
            /\ UNCHANGED << data_start, data_len >>
            /\ Leave("none", None)
       ELSE \E t \in {parse_file_header_turn(in_bytes[1], byte_idx,
                                             data_start[1], data_len[1])} :
            /\ data_start' = Some(t.ds)
            /\ data_len' = Some(t.dl)
            /\ IF t.what = "continue" THEN
                    /\ byte_idx' = t.next
                    /\ last_field' = t.field
                    /\ UNCHANGED << pc, err, ret, file_header_end >>
                    /\ MetaLocalsUnchanged
               ELSE Leave(t.err, None)

\* get_img_metadata2 up to its first loop
get_img_metadata2 ==
    /\ pc = "idle"
    /\ call' = "get_img_metadata2"
    /\ AttrsUnchanged
    /\ tiff' = None /\ UNCHANGED << HAS_NUMPY, args >>
    /\ IF data_start = None THEN Leave("TypeError", None)
       ELSE IF 0 \notin DOMAIN data_start[1] THEN Leave("KeyError", None)
       ELSE /\ pc' = "index"
            /\ err' = "none" /\ ret' = None
            /\ byte_idx' = data_start[1][0] + 8
            /\ field_ids' = EmptyDict
            /\ collections' = EmptyDict
            /\ UNCHANGED << file_header_end, last_field, this_coll,
                            data_types, visited_ids, stack >>

\* the first loop of get_img_metadata2: its test and one turn
index_loop ==
    /\ pc = "index"
    /\ UNCHANGED call
    /\ AttrsUnchanged
    /\ ImageFixed
    /\ IF 10 \notin DOMAIN data_start[1] THEN Leave("KeyError", None)
       ELSE IF ~(byte_idx < data_start[1][10]) THEN
            /\ pc' = "tree"
            /\ byte_idx' = data_start[1][0] + 8
            /\ last_field' = None
            /\ UNCHANGED << err, ret, file_header_end, field_ids, collections,
                            this_coll, data_types, visited_ids, stack >>
       ELSE \E t \in {index_turn(in_bytes[1], byte_idx, data_start[1],
                                 data_len[1], field_ids)} :
            IF t.what = "raise" THEN Leave(t.err, None)
            ELSE /\ byte_idx' = t.next
                 /\ last_field' = Some(t.field)
                 /\ field_ids' = t.field_ids
                 /\ UNCHANGED << pc, err, ret, file_header_end, collections,
                                 this_coll, data_types, visited_ids, stack >>

\* the second loop of get_img_metadata2: its test and one turn
tree_loop ==
    /\ pc = "tree"
    /\ UNCHANGED call
    /\ AttrsUnchanged
    /\ ImageFixed
    /\ IF ~(byte_idx < data_start[1][10]) THEN
            Leave("none", Some(collections))
       ELSE \E t \in {tree_turn(in_bytes[1], byte_idx, data_start[1],
                                data_len[1], field_ids, collections,
                                this_coll, data_types)} :
            IF t.what = "raise" THEN Leave(t.err, None)
            ELSE /\ byte_idx' = t.next
                 /\ last_field' = Some(t.field)
                 /\ field_ids' = t.field_ids
                 /\ collections' = t.collections
                 /\ this_coll' = t.this_coll
                 /\ data_types' = t.data_types
                 /\ UNCHANGED << pc, err, ret, file_header_end, visited_ids,
                                 stack >>

\* the values of imgsc the image is saved with, as fractions: 0.5, 1.0, 2.0
Scales == { << 1, 2 >>, << 1, 1 >>, << 2, 1 >> }

\* an image method is called with invert and imgsc = sc (None: no imgsc)
ImageCall(name, invert, sc) ==
    /\ pc = "idle"
    /\ call' = name
    /\ args' = Some([invert |-> invert, imgsc |-> sc])
    /\ UNCHANGED << filename, in_bytes, data_start, data_len, endian,
                    HAS_NUMPY >>

\* get_img_data on a Reader that has opened no file: self.data_start[7]
\* raises TypeError
NotOpened ==
    /\ UNCHANGED << img_size_x, img_size_y, img_data >>
    /\ tiff' = None
    /\ Leave("TypeError", None)

\* the loop of get_img_metadata never ends
Hang == pc' = "hang" /\ err' = "none" /\ ret' = None /\ NoLocals

\* get_img_data has run with outcome r: its attributes
ImageAttrs(r) ==
    /\ img_size_x' = r.x /\ img_size_y' = r.y /\ img_data' = r.cache

\* get_img_data as run on the Reader
ImageRun ==
    get_img_data_run(in_bytes[1], data_start[1], data_len[1], endian,
                     img_size_x, img_size_y, img_data, HAS_NUMPY)

\* Reader.get_img_data(invert)
get_img_data(invert) ==
    /\ ImageCall("get_img_data", invert, None)
    /\ IF data_start = None THEN NotOpened
       ELSE \E r \in {ImageRun} :
            /\ ImageAttrs(r)
            /\ tiff' = None
            /\ IF r.err = "hang" THEN Hang
               ELSE IF r.err # "none" THEN Leave(r.err, None)
               ELSE Leave("none",
                          Some(<< r.x[1], r.y[1],
                                  img_data_returned(r.cache[1], invert) >>))

\* Reader.save_img_as_tiff(tiff_filename, invert)
save_img_as_tiff(invert) ==
    /\ ImageCall("save_img_as_tiff", invert, None)
    /\ IF data_start = None THEN NotOpened
       ELSE \E r \in {ImageRun} :
            /\ ImageAttrs(r)
            /\ IF r.err = "hang" THEN Hang /\ tiff' = None
               ELSE IF r.err # "none" THEN
                    Leave(r.err, None) /\ tiff' = None
               ELSE /\ tiff' = Some(save_u16_to_tiff(
                                    img_data_returned(r.cache[1], invert),
                                    << r.x[1], r.y[1] >>))
                    /\ Leave("none", None)

\* save_img_as_tiff_sc once get_img_data has returned img_data = data with
\* minimum lo and maximum hi
save_scaled(data, lo, hi, size, sc, invert) ==
    IF lo # hi THEN
        /\ tiff' = Some(save_u16_to_tiff(
                        img_data_scale(data, lo, hi, sc, invert, HAS_NUMPY),
                        size))
        /\ Leave("none", None)
    ELSE IF HAS_NUMPY THEN
        \E v \in NanAsUint16 :
            /\ tiff' = Some(save_u16_to_tiff([i \in 1..Len(data) |-> v],
                                             size))
            /\ Leave("none", None)
    ELSE Leave("ZeroDivisionError", None) /\ tiff' = None

\* Reader.save_img_as_tiff_sc(tiff_filename, imgsc, invert)
save_img_as_tiff_sc(sc, invert) ==
    /\ ImageCall("save_img_as_tiff_sc", invert, Some(sc))
    /\ IF data_start = None THEN NotOpened
       ELSE \E r \in {ImageRun} :
            /\ ImageAttrs(r)
            /\ IF r.err = "hang" THEN Hang /\ tiff' = None
               ELSE IF r.err # "none" THEN
                    Leave(r.err, None) /\ tiff' = None
               ELSE IF r.cache[1] = << >> THEN
                    Leave("ValueError", None) /\ tiff' = None
               ELSE \E data \in {img_data_returned(r.cache[1], invert)} :
                    save_scaled(data, MinOf(data), MaxOf(data),
                                << r.x[1], r.y[1] >>, sc, invert)

Next ==
    \/ reset
    \/ \E f \in FileNames : open_file(f)
    \/ parse_file_header_loop
    \/ get_img_metadata2
    \/ index_loop
    \/ tree_loop

Spec == Init /\ [][Next]_vars

-----------------------------------------------------------------------------
(* the Reader of an image file *)

MaxPixels == 4      \* most pixels in data block 10

\* the pixels: 0, 1, and one more than 2**15 above them
PixelValues == {0, 1, 40000}

\* the sizes of the images of up to MaxPixels pixels
ImageSizes ==
    { d \in (1..MaxPixels) \X (1..MaxPixels) : d[1] * d[2] <= MaxPixels }

\* the images whose data block 10 holds the x * y pixels that data block 7
\* announces
WholeImages ==
    UNION { { ImageFile(InfoFields(Digits(d[1]), Digits(d[2])), PixBytes(v)) :
                v \in [1..(d[1] * d[2]) -> PixelValues] } : d \in ImageSizes }

\* the fields of data block 7: a size, no field, a width of 0, a height
\* that is no number
ImageInfos ==
    { InfoFields(Digits(d[1]), Digits(d[2])) : d \in ImageSizes }
    \cup { << >>, InfoFields(Digits(0), Digits(2)),
           InfoFields(Digits(2), << 97 >>) }

\* the images whose data block 10 holds three pixels, or three bytes,
\* whatever data block 7 says
BrokenImages ==
    { ImageFile(info, pix) :
        info \in ImageInfos,
        pix \in { PixBytes(<< 0, 1, 40000 >>), << 1, 0, 2 >> } }

ImageFiles == WholeImages \cup BrokenImages

\* data_start and data_len as _parse_file_header fills them from the
\* eleven block pointers of the file
BlockStarts(d) == [k \in 0..10 |-> BlockStart(d, k)]
BlockLens(d) == [k \in 0..10 |-> BlockLen(d, k)]

\* Reader(in_filename) on an image file
InitImage ==
    /\ pc = "idle" /\ call = "__init__" /\ err = "none" /\ ret = None
    /\ \E d \in ImageFiles :
        /\ filename = Some(d) /\ in_bytes = Some(FileBytes(d))
        /\ data_start = Some(BlockStarts(d))
        /\ data_len = Some(BlockLens(d))
    /\ endian = "<"
    /\ img_size_x = None /\ img_size_y = None /\ img_data = None
    /\ file_header_end = 0 /\ byte_idx = 0 /\ last_field = None
    /\ field_ids = EmptyDict /\ collections = EmptyDict
    /\ this_coll = None /\ data_types = None
    /\ visited_ids = << >> /\ stack = << >>
    /\ HAS_NUMPY \in BOOLEAN /\ args = None /\ tiff = None

NextImage ==
    \/ \E invert \in BOOLEAN : get_img_data(invert)
    \/ \E invert \in BOOLEAN : save_img_as_tiff(invert)
    \/ \E sc \in Scales, invert \in BOOLEAN : save_img_as_tiff_sc(sc, invert)
    \/ reset
    \/ \E f \in LifecycleImages : open_file(f)
    \/ parse_file_header_loop

SpecImage == InitImage /\ [][NextImage]_vars

-----------------------------------------------------------------------------
(* properties of open_file and of the walks *)

\* the bytes of b from offset off on are the ASCII text
BytesBegin(b, off, text) ==
    /\ Len(b) >= off + Len(text)
    /\ \A i \in 1..Len(text) : b[off + i] = text[i]

\* the buffer of the open Reader has its first two bytes, and they are not
\* 0xAFAF, or its bytes [56,136) do not begin with "Bio-Rad Scan File"
BadMagicOrId ==
    /\ in_bytes # None
    /\ Len(in_bytes[1]) >= 2
    /\ \/ in_bytes[1][1] + 256 * in_bytes[1][2] # MAGIC
       \/ ~BytesBegin(in_bytes[1], 56, BioRadScanFile)

C3_NonIntelRejected ==
    /\ endian = "<"
    /\ (/\ call = "open_file" /\ pc = "idle"
        /\ Len(in_bytes[1]) >= 136
        /\ magic_ok(in_bytes[1]) /\ biorad_id_ok(in_bytes[1])
        /\ endian_of(in_bytes[1]) = ">")
       => err = "BioRadInvalidFileError"

\* C4: when open_file returns, data_start and data_len have all of the
\* entries 0..10.
C4_FullTableOrError ==
    (call = "open_file" /\ pc = "idle" /\ err = "none")
        => /\ DOMAIN data_start[1] = 0..10
           /\ DOMAIN data_len[1] = 0..10

\* C5: a walk that has read a field and goes on is at an offset beyond the
\* start of that field; it never stands where it has just read.
C5_WalkAdvances ==
    (pc \in {"header", "index", "tree"} /\ last_field # None)
        => byte_idx > last_field[1].start

\* C6: the tree pass leaves the index alone: every field ID (the ID 0 of the
\* end-of-block fields aside) stays bound to the field at the same offset,
\* the one the index pass bound it to last.
C6_IndexKeptInDecode ==
    [][(pc = "tree" /\ pc' = "tree")
        => \A id \in DOMAIN field_ids :
              field_ids[id].type # 0
                  => field_ids'[id].start = field_ids[id].start]_vars

\* the items of the Metadata returned, as << collection, label >> pairs
ItemsOf(colls) ==
    { cl \in UNION { { << c, l >> : l \in DOMAIN colls[c] } :
                     c \in DOMAIN colls } : TRUE }

\* a Reference region of data names the container field id
RefersTo(data, id) ==
    \E r \in DOMAIN data :
        data[r].interp.kind = "REF" /\ data[r].proc.val[1] = id

\* C9: in the Metadata get_img_metadata2 returns, a container field that is
\* the target of a Reference region of an item is not itself a top-level
\* item of a collection.
C9_TargetNotTopLevel ==
    (call = "get_img_metadata2" /\ pc = "idle" /\ err = "none")
        => \A a \in ItemsOf(ret[1]), t \in ItemsOf(ret[1]) :
              ~RefersTo(ret[1][a[1]][a[2]].data, ret[1][t[1]][t[2]].id)

\* C19: when open_file has raised BioRadInvalidFileError the Reader holds
\* nothing of the rejected file: no bytes, no file name, and data-block
\* tables that are None or empty, as after reset.
C19_NothingKeptOnInvalidFile ==
    (call = "open_file" /\ pc = "idle" /\ err = "BioRadInvalidFileError")
        => /\ in_bytes = None
           /\ filename = None
           /\ data_start \in {None, Some(EmptyDict)}
           /\ data_len \in {None, Some(EmptyDict)}

\* C12: a call of get_img_metadata2 that follows one that has returned its
\* tree, nothing called between them, returns that same tree from the cache:
\* the decode is not run a second time.
C12_MetadataDecodedOnce ==
    [][(/\ call = "get_img_metadata2" /\ pc = "idle" /\ err = "none"
        /\ call' = "get_img_metadata2")
       => (pc' = "idle" /\ err' = "none" /\ ret' = ret)]_vars

\* the second loop of get_img_metadata2 is at a field of no known type that
\* is no key of data_types either
AtUnknownFieldType ==
    /\ pc = "tree" /\ byte_idx < data_start[1][10]
    /\ \E r \in {read_field_lite(in_bytes[1], byte_idx)} :
         /\ r.err = "none"
         /\ r.field.type \notin {0, 2, 16, 100, 101, 102}
         /\ (data_types = None \/ r.field.type \notin DOMAIN data_types[1])

\* C22: in the second loop of get_img_metadata2 a field whose type is none
\* of 0, 2, 16, 100, 101, 102 and no key of data_types ends the call with
\* the "Unknown Field Type ... in Collection" exception, and no tree is
\* returned.
C22_UnknownFieldTypeRaises ==
    [][AtUnknownFieldType
       => (pc' = "idle" /\ err' = "Exception" /\ ret' = None)]_vars

\* the second loop of get_img_metadata2 has read a field of the given type
\* and goes on
TreeRead(types) ==
    /\ pc = "tree" /\ pc' = "tree"
    /\ last_field' # None /\ last_field'[1].type \in types

\* the step is of a data container: a field of none of the fixed types
TreeReadContainer ==
    /\ pc = "tree" /\ pc' = "tree"
    /\ last_field' # None
    /\ last_field'[1].type \notin {0, 2, 16, 100, 101, 102}

\* C23: a Type 102 field opens a new, empty collection and empties
\* data_types; a Type 101 field sets data_types and leaves the collections
\* alone; no other field changes data_types or the open collection.  A data
\* container is decoded with data_types as the last Type 101 field after the
\* last Type 102 field set it, and is put under its label there into the
\* collection opened last, every other collection staying as it is.
C23_ContainerIntoLastCollection ==
    [][/\ TreeRead({102}) =>
              /\ data_types' = Some(EmptyDict)
              /\ this_coll' # None
              /\ this_coll'[1] \in DOMAIN collections'
              /\ collections'[this_coll'[1]] = EmptyDict
              /\ \A c \in DOMAIN collections :
                    c # this_coll'[1] => collections'[c] = collections[c]
       /\ TreeRead({101}) =>
              /\ data_types' # None
              /\ UNCHANGED << this_coll, collections >>
       /\ TreeRead({0, 2, 16, 100}) =>
              UNCHANGED << data_types, this_coll, collections >>
       /\ TreeReadContainer =>
              /\ UNCHANGED << data_types, this_coll >>
              /\ data_types # None /\ this_coll # None
              /\ last_field'[1].type \in DOMAIN data_types[1]
              /\ DOMAIN collections' = DOMAIN collections
              /\ \A c \in DOMAIN collections :
                    c # this_coll[1] => collections'[c] = collections[c]
              /\ \E l \in {data_types[1][last_field'[1].type].label} :
                    /\ l \in DOMAIN collections'[this_coll[1]]
                    /\ collections'[this_coll[1]][l].id = last_field'[1].id
      ]_vars

\* C23 happens: after the collection "c" with its schema a second collection
\* "x" was opened, in whose schema field type 1001 is "x"; the container of
\* type 1001 is in "x" under "x", and "c" is empty
C23_Witness ==
    /\ pc = "tree" /\ last_field # None /\ last_field[1].type = 1001
    /\ this_coll = Some(<< 120 >>)
    /\ DOMAIN collections = { << 99 >>, << 120 >> }
    /\ collections[<< 99 >>] = EmptyDict
    /\ DOMAIN collections[<< 120 >>] = { << 120 >> }
    /\ collections[<< 120 >>][<< 120 >>].id = 21

\* the Reader holds nothing: its attributes are as __init__ sets them
NothingHeld ==
    /\ filename = None /\ in_bytes = None
    /\ data_start = None /\ data_len = None
    /\ img_size_x = None /\ img_size_y = None /\ img_data = None

\* the data-block table holds only what the header of the file opened says
TableOfOpenedFile ==
    /\ in_bytes = Some(Files[filename[1]])
    /\ \A k \in DOMAIN data_start[1] :
          /\ k \in 0..10
          /\ data_start[1][k] = BlockStart(filename[1], k)
    /\ \A k \in DOMAIN data_len[1] :
          /\ k \in 0..10
          /\ data_len[1][k] = BlockLen(filename[1], k)

\* a cache that was filled is empty after the step
CacheCleared ==
    \/ img_data # None /\ img_data' = None
    \/ img_size_x # None /\ img_size_x' = None
    \/ img_size_y # None /\ img_size_y' = None
    \/ data_start # None /\ data_start' = None
    \/ data_len # None /\ data_len' = None

\* C13: after reset the Reader holds nothing; from the call of open_file on
\* the Reader holds no pixels and no image size, and a table filled from the
\* bytes of the file opened only; and no step but the call of reset or of
\* open_file empties the pixels, the image size or the table.
C13_CachesClearedOnlyByReset ==
    [][/\ (call' = "reset" => NothingHeld')
       /\ (call' = "open_file" =>
              /\ img_data' = None
              /\ img_size_x' = None /\ img_size_y' = None
              /\ TableOfOpenedFile')
       /\ (CacheCleared => pc = "idle" /\ call' \in {"reset", "open_file"})
      ]_vars

\* C13 happens: open_file has returned on a Reader that an image method was
\* called on before; the pixels and the size are gone and the table is the
\* one of the file opened
C13_Witness ==
    /\ call = "open_file" /\ pc = "idle" /\ err = "none"
    /\ args # None
    /\ img_data = None /\ img_size_x = None
    /\ DOMAIN data_start[1] = 0..10
    /\ data_start[1][10] = BlockStart(filename[1], 10)

-----------------------------------------------------------------------------
(* the field framer on arbitrary buffers *)

MaxBufLen == 9      \* longest buffer a field is read from

\* the byte values of the buffers: 1 is the declared length that stands for
\* 20, 9 a declared length that leaves one byte of payload
BufBytes == {0, 1, 9}

\* the offsets a field is read at
Offsets == {0, 1, 3}

Buffers == UNION { [1..n -> BufBytes] : n \in 0..MaxBufLen }

InitField ==
    /\ pc = "field" /\ call = "_read_field_lite" /\ err = "none" /\ ret = None
    /\ filename = None
    /\ in_bytes \in { Some(b) : b \in Buffers }
    /\ data_start = None /\ data_len = None
    /\ endian = "<"
    /\ img_size_x = None /\ img_size_y = None /\ img_data = None
    /\ file_header_end = 0
    /\ byte_idx \in Offsets
    /\ last_field = None
    /\ field_ids = EmptyDict /\ collections = EmptyDict
    /\ this_coll = None /\ data_types = None
    /\ visited_ids = << >> /\ stack = << >>
    /\ HAS_NUMPY = FALSE /\ args = None /\ tiff = None

\* Reader._read_field_lite(byte_idx)
ReadField ==
    /\ pc = "field"
    /\ \E r \in {read_field_lite(in_bytes[1], byte_idx)} :
        /\ pc' = "idle"
        /\ err' = r.err
        /\ ret' = IF r.err = "none" THEN Some(<< r.next, r.field >>) ELSE None
    /\ UNCHANGED << call, filename, in_bytes, data_start, data_len, endian,
                    img_size_x, img_size_y, img_data, file_header_end,
                    byte_idx, last_field, field_ids, collections, this_coll,
                    data_types, visited_ids, stack, HAS_NUMPY, args, tiff >>

NextField == ReadField

SpecField == InitField /\ [][NextField]_vars

\* the little-endian number of the n bytes of b from offset o on
LittleEndian(b, o, n) ==
    IF n = 2 THEN b[o + 1] + 256 * b[o + 2]
    ELSE b[o + 1] + 256 * b[o + 2] + 65536 * b[o + 3] + 16777216 * b[o + 4]

\* the bytes of b at the offsets from..to-1 that b has
BytesFrom(b, from, to) ==
    [i \in 1..(IF Min(to, Len(b)) > from THEN Min(to, Len(b)) - from ELSE 0)
        |-> b[from + i]]

\* what C1 says of the field at offset o of b, length being its length
IsFieldAt(next, f, b, o, length) ==
    /\ f.type = LittleEndian(b, o, 2)
    /\ f.len = length
    /\ f.id = LittleEndian(b, o + 4, 4)
    /\ f.payload = BytesFrom(b, o + 8, o + length)
    /\ f.start = o
    /\ next = o + length

\* C1: reading a field at an offset that has the 8 bytes of a header after
\* it returns type, length (a declared 1 read as 20), id, payload and next
\* offset as the bytes give them.
C1_FieldRead ==
    (pc = "idle" /\ call = "_read_field_lite"
     /\ Len(in_bytes[1]) >= byte_idx + 8)
        => /\ err = "none"
           /\ IsFieldAt(ret[1][1], ret[1][2], in_bytes[1], byte_idx,
                        IF LittleEndian(in_bytes[1], byte_idx + 2, 2) = 1
                        THEN 20
                        ELSE LittleEndian(in_bytes[1], byte_idx + 2, 2))

\* C1 happens: a field with declared length 1 and a byte of payload was read
C1_Witness ==
    /\ pc = "idle" /\ call = "_read_field_lite" /\ err = "none"
    /\ byte_idx = 0
    /\ ret[1][2].len = 20
    /\ Len(ret[1][2].payload) = 1

-----------------------------------------------------------------------------
(* parsing.py: the recursive decoding of data containers *)

\* REGION_DATA_TYPES of constants.py
REGION_DATA_TYPES ==
    (1 :> "byte") @@ (2 :> "byte/ASCII") @@ (3 :> "u?int16") @@
    (4 :> "uint16") @@ (5 :> "u?int32") @@ (6 :> "u?int32") @@
    (7 :> "uint64") @@ (9 :> "uint32") @@ (10 :> "8-byte - float?") @@
    (15 :> "uint32 Reference") @@ (17 :> "uint32 Reference") @@
    (21 :> "u?int32") @@ (131 :> "12-byte??") @@
    (1001 :> "8- or 24-byte??") @@ (1002 :> "24-byte??") @@
    (1003 :> "8-byte (x,y)??") @@ (1004 :> "8- or 16-byte (x1,y1,x2,y2)??") @@
    (1005 :> "64-byte??") @@ (1006 :> "640-byte??") @@
    (1010 :> "144-byte??") @@ (1016 :> "440-byte??") @@
    (1020 :> "32-byte??") @@ (1027 :> "8-byte??") @@ (1032 :> "12-byte??")

\* data_proc[0] if len(data_proc) == 1 else data_proc
Collapse(words) ==
    IF Len(words) = 1 THEN Value("int", words) ELSE Value("ints", words)

\* region_data of process_data_region
RegionValue(raw, proc, interp) ==
    [what |-> "value", raw |-> raw, proc |-> proc, interp |-> interp]

\* an unknown data type read as bytes
region_data_as_bytes(raw) == RegionValue(raw, Collapse(raw), NoValue)

\* the region_data of a region whose data type is in no branch: data_proc
\* and data_interp keep the None they start with
region_data_unknown(raw) == RegionValue(raw, NoValue, NoValue)

\* process_data_region up to the recursive call: the region_data it returns
\* ("value"), the exception it raises ("raise"), or the field it recurses
\* into ("call"); raw is payload[data_region_start:data_region_end]
process_region_bytes(region, raw, fids) ==
    IF region.data_type \in {1, 2} THEN
        IF Len(raw) > 1 /\ is_ascii(raw)
        THEN RegionValue(raw, Value("str", decode_ignore(rstrip_nul(raw))),
                         NoValue)
        ELSE RegionValue(raw, Collapse(raw), NoValue)
    ELSE IF region.data_type \in {3, 4} THEN
        IF ~unpack_fits(raw, 2) THEN Raise("struct.error")
        ELSE RegionValue(raw, Collapse(unpack_uint16(raw)), NoValue)
    ELSE IF region.data_type \in {5, 6, 9, 21} THEN
        IF ~unpack_fits(raw, 4) THEN Raise("struct.error")
        ELSE IF endswith(region.label, << 116, 105, 109, 101 >>)   \* "time"
        THEN IF Len(raw) # 4 THEN Raise("TypeError")
             ELSE RegionValue(raw, Collapse(unpack_uint32(raw)),
                              Value("time", unpack_uint32(raw)))
        ELSE RegionValue(raw, Collapse(unpack_uint32(raw)), NoValue)
    ELSE IF region.data_type = 7 THEN
        IF ~unpack_fits(raw, 8) THEN Raise("struct.error")
        ELSE RegionValue(raw, Collapse(unpack_uint64(raw)), NoValue)
    ELSE IF region.data_type = 10 THEN
        IF ~unpack_fits(raw, 8) THEN Raise("struct.error")
        ELSE RegionValue(raw, Value("doubles", raw), NoValue)
    ELSE IF region.data_type \in {15, 17} THEN
        IF ~unpack_fits(raw, 4) THEN Raise("struct.error")
        ELSE IF Len(raw) # 4 THEN Raise("KeyError")
        ELSE With(unpack_uint32(raw)[1], LAMBDA this_ref :
            IF this_ref = 0 THEN
                RegionValue(raw, Collapse(unpack_uint32(raw)), NoValue)
            ELSE IF this_ref \notin DOMAIN fids THEN Raise("KeyError")
            ELSE IF fids[this_ref].type = 16 THEN
                RegionValue(raw, Collapse(unpack_uint32(raw)),
                    Value("str",
                          decode_ignore(Slice(fids[this_ref].payload, 0,
                                          Len(fids[this_ref].payload) - 1))))
            ELSE [what |-> "call", raw |-> raw, ref |-> this_ref])
    ELSE region_data_unknown(raw)

\* process_data_region up to the recursive call
process_data_region(region, payload, fids) ==
    process_region_bytes(region,
        Slice(payload, region.byte_offset,
              region.byte_offset + region.word_size * region.num_words),
        fids)

\* the same with every chunk taken to be the first
chunk_first(payload, i, data_key_len) == Slice(payload, 0, data_key_len)

\* field_info["payload"][i * data_key_len : (i + 1) * data_key_len]
chunk_of(payload, i, data_key_len) ==
    Slice(payload, i * data_key_len, (i + 1) * data_key_len)

\* process_payload_data_container before its loops: the exception it raises
container_entry(field_info, ftypes, fids) ==
    IF field_info.type \notin DOMAIN ftypes THEN "KeyError"
    ELSE IF ftypes[field_info.type].data_key_ref \notin DOMAIN fids THEN
        "KeyError"
    ELSE IF ~fids[ftypes[field_info.type].data_key_ref].has_regions THEN
        "KeyError"
    ELSE IF ftypes[field_info.type].total_bytes = 0 THEN "ZeroDivisionError"
    ELSE IF Len(field_info.payload) % ftypes[field_info.type].total_bytes # 0
    THEN "AssertionError"
    ELSE "none"

\* the locals of a running process_payload_data_container: its field_info,
\* the chunk number i, the number k of the data key entry it is at, and
\* regions_list
Frame(field_info) ==
    [field |-> field_info, i |-> 0, k |-> 1, regions_list |-> << >>]

\* data_key and data_key_len and data_key_multiple of a frame
data_key_of(fr, ftypes, fids) ==
    fids[ftypes[fr.field.type].data_key_ref].regions
data_key_len_of(fr, ftypes) == ftypes[fr.field.type].total_bytes
data_key_multiple_of(fr, ftypes) ==
    Len(fr.field.payload) \div data_key_len_of(fr, ftypes)

\* both loops of the frame are over
LoopsDone(fr, ftypes, fids) ==
    \/ fr.i >= data_key_multiple_of(fr, ftypes)
    \/ Len(data_key_of(fr, ftypes, fids)) = 0

\* the entry appended to regions_list for region, decoded to region_data in
\* chunk i
RegionEntry(region, region_data, i) ==
    [label |-> region.label,
     data |-> region_data,
     dtype |-> IF region.data_type \in DOMAIN REGION_DATA_TYPES
               THEN Some(REGION_DATA_TYPES[region.data_type]) ELSE None,
     dtype_num |-> region.data_type,
     word_size |-> region.word_size,
     num_words |-> region.num_words,
     region_idx |-> region.index,
     key_iter |-> i]

\* the frame after the entry for its current region is appended
FrameAppend(fr, n, region_data) ==
    [fr EXCEPT !.regions_list = Append(@, region_data),
               !.k = IF fr.k >= n THEN 1 ELSE fr.k + 1,
               !.i = IF fr.k >= n THEN fr.i + 1 ELSE fr.i]

\* the region the frame is at, decoded up to the recursive call
FrameRegion(fr, ftypes, fids) ==
    process_data_region(data_key_of(fr, ftypes, fids)[fr.k],
                        chunk_of(fr.field.payload, fr.i,
                                 data_key_len_of(fr, ftypes)),
                        fids)

\* data_interp of a Reference region whose recursive call returned
\* regions_list for the field field_info_ref
NestedItem(regions_list, field_info_ref, ftypes) ==
    [kind |-> "nested",
     val |-> [data |-> regions_list,
              label |-> ftypes[field_info_ref.type].label,
              id |-> field_info_ref.id,
              type |-> field_info_ref.type]]

-----------------------------------------------------------------------------
(* the decoding of a data container as a state machine *)

MaxChunks == 2      \* most chunks in the payload of the container decoded
MaxDepth == 4       \* calls of process_payload_data_container the
                    \* interpreter lets nest before it raises RecursionError

\* a Reference region of one uint32 at byte_offset off
RefRegion(off, index) ==
    [data_type |-> 15, label |-> << 114 >>, index |-> index, num_words |-> 1,
     byte_offset |-> off, word_size |-> 4, ref_field_type |-> 0]

\* a region of one uint16 at byte_offset off
NumRegion(off, index) ==
    [data_type |-> 3, label |-> << 110 >>, index |-> index, num_words |-> 1,
     byte_offset |-> off, word_size |-> 2, ref_field_type |-> 0]

\* a region of one 2-byte word at byte_offset off whose data type, 131, is
\* in no branch of process_data_region
UnknownRegion(off, index) ==
    [data_type |-> 131, label |-> << 117 >>, index |-> index, num_words |-> 1,
     byte_offset |-> off, word_size |-> 2, ref_field_type |-> 0]

\* 'items' of the Type 101 field: field type 1000 "x" is laid out by data key
\* 12 (one Reference region), 1001 "y" by data key 13 (a uint16 region and a
\* Reference region), 1002 "z" by data key 14 (a region of unknown data type
\* and a uint16 region); 1003 "e" and 1004 "o" are laid out by data key 12
\* and declare a total_bytes of 0 and of 3; 1005 "s" is laid out by data key
\* 14 and declares a total_bytes of 2, so that the second region of the key
\* lies beyond the chunk
DecodeTypes ==
    (1000 :> [num_regions |-> 1, data_key_ref |-> 12, total_bytes |-> 4,
              label |-> << 120 >>]) @@
    (1001 :> [num_regions |-> 2, data_key_ref |-> 13, total_bytes |-> 6,
              label |-> << 121 >>]) @@
    (1002 :> [num_regions |-> 2, data_key_ref |-> 14, total_bytes |-> 4,
              label |-> << 122 >>]) @@
    (1003 :> [num_regions |-> 1, data_key_ref |-> 12, total_bytes |-> 0,
              label |-> << 101 >>]) @@
    (1004 :> [num_regions |-> 1, data_key_ref |-> 12, total_bytes |-> 3,
              label |-> << 111 >>]) @@
    (1005 :> [num_regions |-> 2, data_key_ref |-> 14, total_bytes |-> 2,
              label |-> << 115 >>])

\* the payloads of the string field 5: "a", "a" padded with a second NUL,
\* the empty string
StringPayloads == { << 97, 0 >>, << 97, 0, 0 >>, << 0 >> }

\* the values of the Reference regions: null, the string field, the
\* containers 20 and 21, a field ID that is in no field
Refs == {0, 5, 20, 21, 99}

\* a chunk of a container of the given type with Reference value ref
ChunkBytes(type, ref) ==
    IF type = 1001 THEN U16(7) \o U32(ref)
    ELSE IF type = 1005 THEN U16(ref)
    ELSE U32(ref)

\* a container field with one chunk for each of refs
Container(type, id, refs) ==
    FieldInfo(type, id, 0, 0,
              Concat([j \in 1..Len(refs) |-> ChunkBytes(type, refs[j])]))

\* field_ids: the data keys 12, 13 and 14, the string field 5 and the
\* containers 20 and 21
DecodeIndex(sp, c20, c21) ==
    (5 :> FieldInfo(16, 5, 0, 8 + Len(sp), sp)) @@
    (12 :> WithRegions(FieldInfo(100, 12, 0, 0, << >>),
                       << RefRegion(0, 0) >>)) @@
    (13 :> WithRegions(FieldInfo(100, 13, 0, 0, << >>),
                       << NumRegion(0, 0), RefRegion(2, 1) >>)) @@
    (14 :> WithRegions(FieldInfo(100, 14, 0, 0, << >>),
                       << UnknownRegion(0, 0), NumRegion(2, 1) >>)) @@
    (20 :> c20) @@ (21 :> c21)

RefSeqs == UNION { [1..k -> Refs] : k \in 0..MaxChunks }

\* process_payload_data_container(field_ids[20], ...) is called
InitDecode ==
    /\ pc = "enter" /\ call = "process_payload_data_container"
    /\ err = "none" /\ ret = None
    /\ filename = None /\ in_bytes = None
    /\ data_start = None /\ data_len = None
    /\ endian = "<"
    /\ img_size_x = None /\ img_size_y = None /\ img_data = None
    /\ file_header_end = 0 /\ byte_idx = 0
    /\ collections = EmptyDict /\ this_coll = None
    /\ data_types = Some(DecodeTypes)
    /\ \E sp \in StringPayloads, t \in DOMAIN DecodeTypes, refs \in RefSeqs,
          r21 \in Refs :
          field_ids = DecodeIndex(sp, Container(t, 20, refs),
                                  Container(1000, 21, << r21 >>))
    /\ last_field = Some(field_ids[20])
    /\ visited_ids = << >> /\ stack = << >>
    /\ HAS_NUMPY = FALSE /\ args = None /\ tiff = None

DecodeFixed ==
    UNCHANGED << call, filename, in_bytes, data_start, data_len, endian,
                 img_size_x, img_size_y, img_data, file_header_end, byte_idx,
                 collections, this_coll, data_types, field_ids, HAS_NUMPY,
                 args, tiff >>

\* an exception leaves every running call
DecodeRaise(e) ==
    /\ pc' = "idle" /\ err' = e /\ ret' = None
    /\ stack' = << >>
    /\ UNCHANGED << last_field, visited_ids >>

\* the top of the stack
Top == stack[Len(stack)]

\* the stack with its top frame replaced
SetTop(fr) == [stack EXCEPT ![Len(stack)] = fr]

\* process_payload_data_container is entered with field_info = last_field
container_enter ==
    /\ pc = "enter"
    /\ DecodeFixed
    /\ IF Len(stack) >= MaxDepth THEN DecodeRaise("RecursionError")
       ELSE \E e \in {container_entry(last_field[1], data_types[1],
                                      field_ids)} :
            IF e # "none" THEN DecodeRaise(e)
            ELSE /\ pc' = "loop"
                 /\ stack' = Append(stack, Frame(last_field[1]))
                 /\ UNCHANGED << err, ret, last_field, visited_ids >>

\* one turn of the inner loop on a region that is decoded without a
\* recursive call
region_loop ==
    /\ pc = "loop"
    /\ ~LoopsDone(Top, data_types[1], field_ids)
    /\ DecodeFixed
    /\ \E p \in {FrameRegion(Top, data_types[1], field_ids)} :
        /\ p.what # "call"
        /\ IF p.what = "raise" THEN DecodeRaise(p.err)
           ELSE /\ stack' = SetTop(FrameAppend(Top,
                        Len(data_key_of(Top, data_types[1], field_ids)),
                        RegionEntry(
                            data_key_of(Top, data_types[1], field_ids)[Top.k],
                            [raw |-> p.raw, proc |-> p.proc,
                             interp |-> p.interp],
                            Top.i)))
                /\ UNCHANGED << pc, err, ret, last_field, visited_ids >>

\* process_data_region recurses into the container a Reference region names
reference_call ==
    /\ pc = "loop"
    /\ ~LoopsDone(Top, data_types[1], field_ids)
    /\ DecodeFixed
    /\ \E p \in {FrameRegion(Top, data_types[1], field_ids)} :
        /\ p.what = "call"
        /\ pc' = "enter"
        /\ last_field' = Some(field_ids[p.ref])
        /\ UNCHANGED << err, ret, stack, visited_ids >>

\* process_payload_data_container returns regions_list: to the caller of the
\* decode, or to the process_data_region that recursed, which then finishes
\* its region
container_return ==
    /\ pc = "loop"
    /\ LoopsDone(Top, data_types[1], field_ids)
    /\ DecodeFixed
    /\ IF Len(stack) = 1 THEN
            /\ pc' = "idle" /\ err' = "none"
            /\ ret' = Some(Top.regions_list)
            /\ stack' = << >>
            /\ UNCHANGED << last_field, visited_ids >>
       ELSE \E caller \in {stack[Len(stack) - 1]} :
            /\ stack' = [SubSeq(stack, 1, Len(stack) - 1)
                           EXCEPT ![Len(stack) - 1] =
                FrameAppend(caller,
                    Len(data_key_of(caller, data_types[1], field_ids)),
                    RegionEntry(
                        data_key_of(caller, data_types[1], field_ids)[caller.k],
                        [raw |-> FrameRegion(caller, data_types[1],
                                             field_ids).raw,
                         proc |-> Collapse(unpack_uint32(
                                     FrameRegion(caller, data_types[1],
                                                 field_ids).raw)),
                         interp |-> NestedItem(Top.regions_list, Top.field,
                                               data_types[1])],
                        caller.i))]
            /\ visited_ids' = Append(visited_ids, Top.field.id)
            /\ UNCHANGED << pc, err, ret, last_field >>

NextDecode ==
    \/ container_enter
    \/ region_loop
    \/ reference_call
    \/ container_return

SpecDecode == InitDecode /\ [][NextDecode]_vars

-----------------------------------------------------------------------------
(* properties of the decoding of data containers *)

\* entry e is made from data-key entry region in chunk j of payload, the
\* chunks being total_bytes long
EntryOfRegion(e, region, j, payload, total_bytes) ==
    /\ e.key_iter = j
    /\ e.label = region.label
    /\ e.dtype_num = region.data_type
    /\ e.word_size = region.word_size
    /\ e.num_words = region.num_words
    /\ e.region_idx = region.index
    /\ e.data.raw =
          BytesFrom(BytesFrom(payload, j * total_bytes, (j + 1) * total_bytes),
                    region.byte_offset,
                    region.byte_offset + region.word_size * region.num_words)

\* regions_list is the k * n entries of a payload of k chunks under a data
\* key of n regions, in document order
KeyMultiplied(regions_list, payload, data_key, total_bytes) ==
    /\ Len(regions_list) = (Len(payload) \div total_bytes) * Len(data_key)
    /\ \A j \in 0..((Len(payload) \div total_bytes) - 1) :
          \A i \in 0..(Len(data_key) - 1) :
              EntryOfRegion(regions_list[j * Len(data_key) + i + 1],
                            data_key[i + 1], j, payload, total_bytes)

\* C7: the regions_list a call of process_payload_data_container returns for
\* a payload of k chunks (total_bytes >= 1) under a data key of n regions
\* has exactly k * n entries; entry j*n + i has key_iter j, the label, data
\* type, word_size, num_words and index of data-key entry i, and its raw
\* bytes are cut from chunk j.
C7_KeyMultiplication ==
    (pc = "loop" /\ LoopsDone(Top, data_types[1], field_ids))
        => KeyMultiplied(Top.regions_list, Top.field.payload,
               field_ids[data_types[1][Top.field.type].data_key_ref].regions,
               data_types[1][Top.field.type].total_bytes)

\* C7 happens: a container of two chunks under a data key of two regions is
\* about to return its four entries, the chunks holding different bytes
C7_Witness ==
    /\ pc = "loop" /\ LoopsDone(Top, data_types[1], field_ids)
    /\ Top.field.type = 1001
    /\ Len(Top.field.payload) = 12
    /\ Len(Top.regions_list) = 4
    /\ Top.regions_list[2].data.raw # Top.regions_list[4].data.raw

\* the entries decoded so far in the running calls
EntriesOnStack ==
    UNION { { stack[d].regions_list[x] :
                x \in 1..Len(stack[d].regions_list) } : d \in 1..Len(stack) }

\* what C8 says of the region_data of a Reference region with raw value v
ReferenceInterp(data, v, fids) ==
    IF v = 0 THEN data.interp.kind = "none"
    ELSE IF fids[v].type = 16 THEN
        /\ data.interp.kind = "str"
        /\ data.interp.val # << >>
        /\ data.interp.val[Len(data.interp.val)] # 0
    ELSE /\ data.interp.kind = "nested"
         /\ data.interp.val.id = v
         /\ data.interp.val.type = fids[v].type

\* C8: every decoded Reference region has interp None when its value is 0,
\* a non-empty string with no trailing NUL when its value names a string
\* field, and otherwise the nested item of the field it names.
C8_ReferenceInterp ==
    \A e \in EntriesOnStack :
        e.dtype_num \in {15, 17}
            => ReferenceInterp(e.data, LittleEndian(e.data.raw, 0, 4),
                               field_ids)

\* C10: no two running calls of process_payload_data_container decode the
\* same field.
C10_NoReentry ==
    \A a \in 1..Len(stack), c \in 1..Len(stack) :
        a # c => stack[a].field.id # stack[c].field.id

\* the data types process_data_region has a branch for
KnownDataTypes == {1, 2, 3, 4, 5, 6, 7, 9, 10, 15, 17, 21}

\* the region the running call at the top of the stack is at
RegionAt(fr) == data_key_of(fr, data_types[1], field_ids)[fr.k]

\* the running call at the top of the stack is about to decode a region of
\* unknown data type
AtUnknownRegion ==
    /\ pc = "loop"
    /\ ~LoopsDone(Top, data_types[1], field_ids)
    /\ RegionAt(Top).data_type \notin KnownDataTypes

\* C11: a region whose data type is none of 1, 2, 3, 4, 5, 6, 7, 9, 10, 15,
\* 17, 21 never aborts the decode: the step that decodes it raises nothing
\* and appends one entry with proc None, interp None and the raw bytes of
\* the region in its chunk; and the container that holds it still returns
\* one entry for each data-key entry of each chunk.
C11_UnknownTypeKept ==
    [][/\ AtUnknownRegion =>
            /\ pc' = "loop" /\ err' = "none"
            /\ Len(stack') = Len(stack)
            /\ Len(Top'.regions_list) = Len(Top.regions_list) + 1
            /\ LET e == Top'.regions_list[Len(Top'.regions_list)]
               IN /\ e.data.proc = NoValue
                  /\ e.data.interp = NoValue
                  /\ EntryOfRegion(e, RegionAt(Top), Top.i,
                         Top.field.payload,
                         data_types[1][Top.field.type].total_bytes)
       /\ (/\ pc = "loop" /\ LoopsDone(Top, data_types[1], field_ids)
           /\ \E x \in 1..Len(data_key_of(Top, data_types[1], field_ids)) :
                 data_key_of(Top, data_types[1], field_ids)[x].data_type
                     \notin KnownDataTypes)
            => KeyMultiplied(Top.regions_list, Top.field.payload,
                   data_key_of(Top, data_types[1], field_ids),
                   data_types[1][Top.field.type].total_bytes)
      ]_vars

\* C11 happens: a container of two chunks whose data key has a region of data
\* type 131 is about to return four entries, the first and the third with
\* proc None and two raw bytes
C11_Witness ==
    /\ pc = "loop" /\ LoopsDone(Top, data_types[1], field_ids)
    /\ Top.field.type = 1002
    /\ Len(Top.regions_list) = 4
    /\ Top.regions_list[1].dtype_num = 131
    /\ Top.regions_list[1].data.proc = NoValue
    /\ Top.regions_list[3].data.raw = << 5, 0 >>

\* the field cannot be cut into whole chunks: the total_bytes of its field
\* type is 0 or does not divide the length of its payload
NotWholeChunks(field_info, ftypes) ==
    /\ field_info.type \in DOMAIN ftypes
    /\ \/ ftypes[field_info.type].total_bytes = 0
       \/ Len(field_info.payload) % ftypes[field_info.type].total_bytes # 0

\* C20: the decode of a container whose payload length is not a multiple of
\* its total_bytes, total_bytes = 0 included, ends with BioRadParsingError
\* and returns no regions.
C20_NotMultipleIsParsingError ==
    (pc = "idle" /\ NotWholeChunks(last_field[1], data_types[1]))
        => (err = "BioRadParsingError" /\ ret = None)

-----------------------------------------------------------------------------
(* properties of the image methods *)

\* the uint16 at flat index k of data block 10 of the file opened, taken
\* from the bytes of the file
RawPixel(k) ==
    in_bytes[1][data_start[1][10] + 2 * k + 1]
    + 256 * in_bytes[1][data_start[1][10] + 2 * k + 2]

\* the file opened is an image d[1] wide and d[2] high: data block 7 says so
\* and data block 10 holds d[1] * d[2] uint16s
IsImageOf(d) ==
    /\ filename # None
    /\ filename[1].info = InfoFields(Digits(d[1]), Digits(d[2]))
    /\ Len(filename[1].pix) = 2 * d[1] * d[2]

\* get_img_data has returned or raised, called with invert = inv
ImageGot(inv) ==
    /\ call = "get_img_data" /\ pc = "idle"
    /\ args # None /\ args[1].invert = inv

\* C14: for an image N wide and M high, get_img_data returns N, M and N * M
\* pixels, and the pixel of column c and row r is the raw uint16 at flat
\* index (M-1-r) * N + c of data block 10; pixel (0, 0) is the raw one at
\* (M-1) * N.
C14_RowsTurned ==
    \A d \in ImageSizes :
        (ImageGot(FALSE) /\ IsImageOf(d)) =>
            /\ err = "none" /\ ret # None
            /\ ret[1][1] = d[1] /\ ret[1][2] = d[2]
            /\ Len(ret[1][3]) = d[1] * d[2]
            /\ \A r \in 0..(d[2] - 1) : \A c \in 0..(d[1] - 1) :
                 ret[1][3][r * d[1] + c + 1]
                    = RawPixel((d[2] - 1 - r) * d[1] + c)
            /\ ret[1][3][1] = RawPixel((d[2] - 1) * d[1])

\* C14 happens: the numpy path has returned a 2 x 2 image whose rows differ,
\* the last row of the file first
C14_Witness ==
    /\ ImageGot(FALSE) /\ HAS_NUMPY /\ err = "none"
    /\ IsImageOf(<< 2, 2 >>)
    /\ RawPixel(0) = 40000 /\ RawPixel(2) = 0 /\ RawPixel(3) = 1
    /\ ret = Some(<< 2, 2, << 0, 1, 40000, 0 >> >>)

\* C15: get_img_data(invert=True) returns 65535 - x for every pixel x that
\* get_img_data(invert=False) returns (the pixels the Reader keeps), each in
\* 0..65535, and inverting what it returns gives those pixels back; for an
\* image N wide and M high the pixel of column c and row r is 65535 less the
\* raw uint16 at (M-1-r) * N + c.  Without invert the kept pixels are
\* returned as they are.
C15_InvertIsComplement ==
    /\ (ImageGot(TRUE) /\ err = "none") =>
          /\ Len(ret[1][3]) = Len(img_data[1])
          /\ \A i \in 1..Len(img_data[1]) :
                /\ ret[1][3][i] = 65535 - img_data[1][i]
                /\ ret[1][3][i] \in 0..65535
                /\ 65535 - ret[1][3][i] = img_data[1][i]
    /\ (ImageGot(FALSE) /\ err = "none") => ret[1][3] = img_data[1]
    /\ \A d \in ImageSizes :
        (ImageGot(TRUE) /\ IsImageOf(d)) =>
            /\ err = "none" /\ ret # None
            /\ \A r \in 0..(d[2] - 1) : \A c \in 0..(d[1] - 1) :
                 ret[1][3][r * d[1] + c + 1]
                    = 65535 - RawPixel((d[2] - 1 - r) * d[1] + c)

\* C15 happens: the inverted pixels of a 2 x 2 image are returned, rows
\* turned
C15_Witness ==
    /\ ImageGot(TRUE) /\ err = "none"
    /\ IsImageOf(<< 2, 2 >>)
    /\ RawPixel(0) = 40000 /\ RawPixel(3) = 1
    /\ ret = Some(<< 2, 2, << 65535, 65534, 25535, 65535 >> >>)

\* the file opened is an image whose data block 10 holds the pixels that
\* data block 7 announces
IsWholeImage == \E d \in ImageSizes : IsImageOf(d)

\* save_img_as_tiff_sc has written such an image, called with invert = inv
ScaledSaved(inv) ==
    /\ call = "save_img_as_tiff_sc" /\ pc = "idle" /\ err = "none"
    /\ tiff # None /\ img_data # None
    /\ args[1].invert = inv
    /\ IsWholeImage

\* the pixels get_img_data hands to the save methods
Got == [i \in 1..Len(img_data[1]) |->
            IF args[1].invert THEN 65535 - img_data[1][i]
            ELSE img_data[1][i]]

\* pixel i of the image written
TiffPixel(i) == tiff[1].data[2 * i - 1] + 256 * tiff[1].data[2 * i]

\* (pixel - lo') / (hi' - lo') of the autoscale as the fraction
\* AutoNum / AutoDen, the scale s being sc[1] / sc[2]: lo' = lo and
\* hi' = lo + (hi - lo) * s, or when inverting hi' = hi and
\* lo' = hi - (hi - lo) * s
AutoDen(lo, hi, sc) == (hi - lo) * sc[1]
AutoNum(x, lo, hi, sc, inv) ==
    IF inv THEN (x - hi) * sc[2] + (hi - lo) * sc[1] ELSE (x - lo) * sc[2]

\* what round(a * 65535 / b) clamped to [0, 65535] may be, for b > 0: on
\* a tie either neighbour
scaled_rounded(a, b) ==
    IF a <= 0 THEN {0}
    ELSE IF 2 * mul65535_mod(a, b) > b
    THEN { Min(65535, mul65535_div(a, b) + 1) }
    ELSE IF 2 * mul65535_mod(a, b) = b
    THEN { Min(65535, mul65535_div(a, b)),
           Min(65535, mul65535_div(a, b) + 1) }
    ELSE { Min(65535, mul65535_div(a, b)) }

\* C16: with lo the least and hi the greatest pixel, hi > lo, and the scale
\* s, save_img_as_tiff_sc writes for each pixel
\* round((pixel - lo') * 65535 / (hi' - lo')) clamped to [0, 65535], where
\* lo' = lo, hi' = lo + (hi-lo)*s when not inverting and hi' = hi,
\* lo' = hi - (hi-lo)*s when inverting.
C16_AutoscaleRounds ==
    \A inv \in BOOLEAN :
        (ScaledSaved(inv) /\ MaxOf(Got) > MinOf(Got)) =>
            /\ Len(tiff[1].data) = 2 * Len(Got)
            /\ \A i \in 1..Len(Got) :
                 TiffPixel(i) \in
                    scaled_rounded(AutoNum(Got[i], MinOf(Got), MaxOf(Got),
                                           args[1].imgsc[1], inv),
                                   AutoDen(MinOf(Got), MaxOf(Got),
                                           args[1].imgsc[1]))

\* C17: when the pixels are not all equal, save_img_as_tiff_sc with
\* imgsc = 1.0 writes pixels in 0..65535 only, one of them 0 when not
\* inverting and one of them 65535 when inverting.
C17_FullRangeAtScaleOne ==
    \A inv \in BOOLEAN :
        (/\ ScaledSaved(inv) /\ args[1].imgsc = Some(<< 1, 1 >>)
         /\ MaxOf(Got) > MinOf(Got)) =>
            /\ Len(tiff[1].data) = 2 * Len(Got)
            /\ \A j \in 1..Len(tiff[1].data) : tiff[1].data[j] \in 0..255
            /\ \A i \in 1..Len(Got) : TiffPixel(i) \in 0..65535
            /\ \E i \in 1..Len(Got) :
                 TiffPixel(i) = IF inv THEN 65535 ELSE 0

\* C17 happens: an inverted image of three different pixels is written at
\* imgsc = 1.0; the greatest becomes 65535, the least 0, the third lies
\* between
C17_Witness ==
    /\ ScaledSaved(TRUE) /\ args[1].imgsc = Some(<< 1, 1 >>)
    /\ MaxOf(Got) > MinOf(Got)
    /\ \E i \in 1..Len(Got) : TiffPixel(i) = 65535
    /\ \E i \in 1..Len(Got) : TiffPixel(i) = 0
    /\ \E i \in 1..Len(Got) : TiffPixel(i) \in 1..65534

\* self.img_data as the other of the two paths builds it
OtherRows ==
    img_rows(in_bytes[1], data_start[1], data_len[1], endian,
             img_size_x[1], ~HAS_NUMPY).data[1]

\* the pixels the other of the two paths hands to the save methods
OtherGot == img_data_returned(OtherRows, args[1].invert)

\* C18: the path with numpy and the path without give the same image size
\* and the same pixels, with and without invert, with and without
\* autoscale.  Stated for the images whose data block 10 holds the pixels
\* that data block 7 announces and, for the autoscale, whose pixels are not
\* all equal.
C18_BothPathsAgree ==
    (/\ pc = "idle" /\ err = "none" /\ args # None /\ img_data # None
     /\ IsWholeImage) =>
        /\ call = "get_img_data" =>
              ret = Some(<< img_size_x[1], img_size_y[1], OtherGot >>)
        /\ call = "save_img_as_tiff" =>
              tiff = Some(save_u16_to_tiff(
                          OtherGot, << img_size_x[1], img_size_y[1] >>))
        /\ (call = "save_img_as_tiff_sc" /\ MaxOf(Got) > MinOf(Got)) =>
              tiff = Some(save_u16_to_tiff(
                          img_data_scale(OtherGot, MinOf(OtherGot),
                                         MaxOf(OtherGot), args[1].imgsc[1],
                                         args[1].invert, ~HAS_NUMPY),
                          << img_size_x[1], img_size_y[1] >>))

\* C29: a call of get_img_data, save_img_as_tiff or save_img_as_tiff_sc,
\* with any invert and scale arguments, on a Reader that holds img_data
\* leaves img_data as it is; and what get_img_data(invert = False) returns
\* are the pixels img_data holds.
C29_CacheFilledOnce ==
    [][(pc = "idle"
        /\ call' \in {"get_img_data", "save_img_as_tiff",
                      "save_img_as_tiff_sc"}) =>
          /\ img_data # None => img_data' = img_data
          /\ (call' = "get_img_data" /\ pc' = "idle" /\ err' = "none"
              /\ ~args'[1].invert)
             => (img_data' # None /\ ret'[1][3] = img_data'[1])]_vars

\* get_img_data(invert = False) has returned the rows of a 1 x 2 image,
\* turned and not inverted, on a Reader whose img_data holds them
C29_Witness ==
    /\ ImageGot(FALSE) /\ err = "none"
    /\ IsImageOf(<< 1, 2 >>)
    /\ img_data = Some(<< RawPixel(1), RawPixel(0) >>)
    /\ RawPixel(0) = 40000
    /\ ret[1][3] = img_data[1]

\* the field the second loop reads next, and field_ids once the loop has
\* put the field there
TreeNext == read_field_lite(in_bytes[1], byte_idx)
TreeIndex == DictSet(field_ids, TreeNext.field.id, TreeNext.field)

\* the index with every Type 100 field of it decoded
Resolved(fids) ==
    [id \in DOMAIN fids |->
        IF fids[id].type = 100
           /\ reader_process_payload_type100(fids[id].payload, fids).err
                  = "none"
        THEN WithRegions(fids[id],
                 reader_process_payload_type100(fids[id].payload,
                                                fids).regions)
        ELSE fids[id]]

\* the second loop is about to read a data container of a known type
AtContainer ==
    /\ pc = "tree" /\ byte_idx < data_start[1][10]
    /\ TreeNext.err = "none"
    /\ data_types # None /\ this_coll # None
    /\ TreeNext.field.type \notin {0, 2, 16, 100, 101, 102}
    /\ TreeNext.field.type \in DOMAIN data_types[1]

\* C27: when the second loop of get_img_metadata2 reads a field, the first
\* loop has put the field's id into field_ids; and a data container whose
\* references resolve once every Type 100 field of the index is decoded is
\* decoded by the loop, wherever in the file the fields it references are.
C27_ForwardReferencesResolve ==
    [][/\ (pc = "tree" /\ byte_idx < data_start[1][10]
           /\ TreeNext.err = "none")
          => TreeNext.field.id \in DOMAIN field_ids
       /\ (AtContainer
           /\ reader_process_payload_data_container(
                  TreeNext.field, data_types[1], Resolved(TreeIndex)).err
              = "none")
          => (pc' = "tree" /\ err' = "none")]_vars

\* the cursor of the running walk is inside data block i
InBlock(i) ==
    /\ i \in DOMAIN data_start[1] /\ i \in DOMAIN data_len[1]
    /\ data_start[1][i] <= byte_idx
    /\ byte_idx < data_start[1][i] + data_len[1][i]

\* the running loop of get_img_metadata2 is about to read a type-0 field
AtSentinel ==
    /\ pc \in {"index", "tree"}
    /\ 10 \in DOMAIN data_start[1] /\ byte_idx < data_start[1][10]
    /\ TreeNext.err = "none" /\ TreeNext.field.type = 0

\* C28: in both loops of get_img_metadata2, reading the type-0 field of
\* data block i (0 <= i <= 9) moves the cursor to start[i] + length[i] + 8,
\* and the loop goes on.
C28_SentinelSkipsToNextBlock ==
    [][\A i \in 0..9 :
          (AtSentinel /\ InBlock(i)) =>
              /\ pc' = pc
              /\ byte_idx' = data_start[1][i] + data_len[1][i] + 8]_vars

-----------------------------------------------------------------------------
(* properties of the regions and of the zero word size repair *)

\* a region of the data key of the container decoded ends beyond the chunk
RegionBeyondChunk(field_info, ftypes, fids) ==
    /\ field_info.type \in DOMAIN ftypes
    /\ ftypes[field_info.type].total_bytes > 0
    /\ Len(field_info.payload) >= ftypes[field_info.type].total_bytes
    /\ Len(field_info.payload) % ftypes[field_info.type].total_bytes = 0
    /\ \E k \in 1..Len(fids[ftypes[field_info.type].data_key_ref].regions) :
         \E g \in {fids[ftypes[field_info.type].data_key_ref].regions[k]} :
            g.byte_offset + g.word_size * g.num_words
               > ftypes[field_info.type].total_bytes

\* C21: a container one of whose regions ends beyond the chunk is not
\* decoded, the decode fails with BioRadParsingError; and no region is
\* returned whose raw bytes are fewer than word_size * num_words.
C21_RegionBeyondChunkIsError ==
    (pc = "idle" /\ call = "process_payload_data_container") =>
        /\ RegionBeyondChunk(field_ids[20], data_types[1], field_ids)
              => (err = "BioRadParsingError" /\ ret = None)
        /\ ret # None =>
              \A j \in 1..Len(ret[1]) :
                 Len(ret[1][j].data.raw)
                    >= ret[1][j].word_size * ret[1][j].num_words

-----------------------------------------------------------------------------
(* parsing.py: the schema fields and the zero word size repair *)

MaxItems == 2       \* most records in the payload of the Type-101 field
MaxRegions == 2     \* most records in the payload of the Type-100 field
MaxRepairs == 2     \* most calls of fix_wordsize_zero on one region set

\* REGION_DATA_TYPE_BYTES of constants.py
REGION_DATA_TYPE_BYTES ==
    (1 :> 1) @@ (2 :> 1) @@ (3 :> 2) @@ (4 :> 2) @@ (5 :> 4) @@ (6 :> 4)
    @@ (7 :> 8) @@ (9 :> 4) @@ (10 :> 8) @@ (15 :> 4) @@ (17 :> 4)
    @@ (21 :> 4) @@ (131 :> 12)

\* field_ids[ref]["data_key_total_bytes"] = total
Unstamped(f, total) == f
Stamped(f, total) == [data_key_total_bytes |-> total] @@ f

\* the item process_payload_type101 makes of data item i
type101_entry(u16, u32, fids, i) ==
    [num_regions |-> u16[10*i + 4],
     data_key_ref |-> u32[5*i + 3],
     total_bytes |-> u32[5*i + 4],
     label |-> label_of(fids, u32[5*i + 5])]

\* one turn of the loop of process_payload_type101, at data item i
type101_turn(u16, u32, fids, i, items) ==
    IF u32[5*i + 5] \notin DOMAIN fids
    THEN [err |-> "KeyError", items |-> items, field_ids |-> fids]
    ELSE IF u16[10*i + 1] \in DOMAIN items
    THEN [err |-> "AssertionError", items |-> items, field_ids |-> fids]
    ELSE IF u32[5*i + 3] \notin DOMAIN fids
    THEN [err |-> "KeyError", items |-> items, field_ids |-> fids]
    ELSE [err |-> "none",
          items |-> DictSet(items, u16[10*i + 1],
                            type101_entry(u16, u32, fids, i)),
          field_ids |-> DictSet(fids, u32[5*i + 3],
                                Stamped(fids[u32[5*i + 3]], u32[5*i + 4]))]

\* byte_offsets after byte_offsets.sort(); byte_offsets.append(total)
unsorted_offsets(byte_offsets, total) == Append(byte_offsets, total)
sorted_offsets(byte_offsets, total) ==
    Append(SortSeq(byte_offsets, LAMBDA a, b : a < b), total)

\* region_sizes[offset] of fix_wordsize_zero: the turn of the loop that
\* assigns the key last is the one that stays
last_index(offs, offset) ==
    CHOOSE i \in 1..(Len(offs) - 1) :
        /\ offs[i] = offset
        /\ \A j \in 1..(Len(offs) - 1) : offs[j] = offset => j <= i
size_at(offs, i) == offs[i + 1] - offs[i]
region_sizes(offs, offset) == size_at(offs, last_index(offs, offset))

\* the division of fix_wordsize_zero raises ZeroDivisionError
divides_by_zero(region) ==
    /\ region.word_size = 0
    /\ region.data_type \notin DOMAIN REGION_DATA_TYPE_BYTES
    /\ region.num_words = 0

\* the word size fix_wordsize_zero gives a region whose word_size is 0
word_size_fixed(region, offs) ==
    IF region.data_type \in DOMAIN REGION_DATA_TYPE_BYTES
    THEN REGION_DATA_TYPE_BYTES[region.data_type]
    ELSE region_sizes(offs, region.byte_offset) \div region.num_words

\* the loop of fix_wordsize_zero over the regions
fix_region_known(region, offs) ==
    IF region.word_size = 0
       \/ region.data_type \in DOMAIN REGION_DATA_TYPE_BYTES
    THEN [region EXCEPT !.word_size = word_size_fixed(region, offs)]
    ELSE region
fix_region(region, offs) ==
    IF region.word_size = 0
    THEN [region EXCEPT !.word_size = word_size_fixed(region, offs)]
    ELSE region
fix_regions(regions, offs) ==
    IF \E j \in 1..Len(regions) : divides_by_zero(regions[j])
    THEN [err |-> "ZeroDivisionError"]
    ELSE [err |-> "none",
          regions |-> [j \in 1..Len(regions) |-> fix_region(regions[j], offs)]]

\* fix_wordsize_zero
fix_wordsize_zero(regions, byte_offsets, data_key_total_bytes) ==
    fix_regions(regions, sorted_offsets(byte_offsets, data_key_total_bytes))

\* byte_offsets and has_wordsize_zero of process_payload_type100
byte_offsets_of(regions) ==
    [j \in 1..Len(regions) |-> regions[j].byte_offset]
has_wordsize_zero(regions) ==
    \E j \in 1..Len(regions) : regions[j].word_size = 0

\* process_payload_type100 once the loop has made the regions
type100_fixed(parsed, data_key_total_bytes) ==
    IF parsed.err # "none" THEN parsed
    ELSE IF has_wordsize_zero(parsed.regions)
    THEN fix_wordsize_zero(parsed.regions, byte_offsets_of(parsed.regions),
                           data_key_total_bytes)
    ELSE parsed

\* process_payload_type100
process_payload_type100(field_payload, data_key_total_bytes, fids) ==
    type100_fixed(reader_process_payload_type100(field_payload, fids),
                  data_key_total_bytes)

-----------------------------------------------------------------------------
(* parsing.py: a Type-101 field and the Type-100 field it references *)

\* one 20-byte record of a Type-101 payload
Item101(type, key, total, lab) ==
    U16(type) \o Zeros(4) \o U16(1) \o U32(key) \o U32(total) \o U32(lab)

\* one 36-byte record of a Type-100 payload
Region36(data_type, num_words, byte_offset, word_size) ==
    U16(data_type) \o U16(0) \o U32(num_words) \o U32(byte_offset)
    \o U32(1) \o Zeros(4) \o U32(word_size) \o Zeros(12)

\* the total byte widths the records declare
Totals == {2, 8}

ItemRecords ==
    { Item101(t, k, tot, lab) :
        t \in {1000, 1001}, k \in {12, 99}, tot \in Totals, lab \in {1, 98} }
RegionRecords ==
    { Region36(dt, nw, off, ws) :
        dt \in {3, 1000}, nw \in {0, 3}, off \in {0, 4}, ws \in {0, 1} }

\* the payloads of up to n records, and one that is cut short
PayloadsOf(records, n) ==
    { Concat(s) : s \in UNION { [1..k -> records] : k \in 0..n } }
    \cup { Append(r, 0) : r \in records }

DefaultItems == { Item101(1000, 12, tot, 1) : tot \in Totals }
DefaultRegions == Region36(1000, 3, 0, 0)

SchemaInputs ==
    (PayloadsOf(ItemRecords, MaxItems) \X {DefaultRegions})
    \cup (DefaultItems \X PayloadsOf(RegionRecords, MaxRegions))

\* the index: the string "a", the Type-101 field 11, the Type-100 field 12
SchemaIndex(items, regions) ==
    (1 :> FieldInfo(16, 1, 0, 10, << 97, 0 >>))
    @@ (11 :> FieldInfo(101, 11, 10, 8 + Len(items), items))
    @@ (12 :> FieldInfo(100, 12, 10 + 8 + Len(items), 8 + Len(regions),
                        regions))

\* process_payload_type101(field_ids[11]["payload"], field_ids) is called
InitSchema ==
    /\ pc = "assert101" /\ call = "process_payload_type101"
    /\ err = "none" /\ ret = None
    /\ filename = None /\ in_bytes = None
    /\ data_start = None /\ data_len = None
    /\ endian = "<"
    /\ img_size_x = None /\ img_size_y = None /\ img_data = None
    /\ file_header_end = 0 /\ byte_idx = 0
    /\ collections = EmptyDict /\ this_coll = None
    /\ data_types = None
    /\ \E inp \in SchemaInputs : field_ids = SchemaIndex(inp[1], inp[2])
    /\ last_field = Some(field_ids[11])
    /\ visited_ids = << >> /\ stack = << >>
    /\ HAS_NUMPY = FALSE /\ args = None /\ tiff = None

SchemaFixed ==
    UNCHANGED << filename, in_bytes, data_start, data_len, endian,
                 img_size_x, img_size_y, img_data, file_header_end,
                 collections, this_coll, visited_ids, stack, HAS_NUMPY,
                 args, tiff >>

\* the call raises e
SchemaRaise(e) ==
    /\ pc' = "idle" /\ err' = e /\ ret' = None

\* process_payload_type101: the assertion on the length of the payload
type101_enter ==
    /\ pc = "assert101"
    /\ SchemaFixed
    /\ UNCHANGED << call, field_ids, last_field >>
    /\ IF Len(last_field[1].payload) % 20 # 0
       THEN SchemaRaise("AssertionError")
            /\ UNCHANGED << byte_idx, data_types >>
       ELSE /\ pc' = "items"
            /\ byte_idx' = 0
            /\ data_types' = Some(EmptyDict)
            /\ UNCHANGED << err, ret >>

\* process_payload_type101: the loop test and one turn at data item
\* byte_idx; after the last turn the items are returned
type101_loop ==
    /\ pc = "items"
    /\ SchemaFixed
    /\ UNCHANGED << call, last_field >>
    /\ IF byte_idx >= Len(last_field[1].payload) \div 20
       THEN /\ pc' = "idle"
            /\ ret' = data_types
            /\ UNCHANGED << err, byte_idx, data_types, field_ids >>
       ELSE \E t \in { type101_turn(unpack_uint16(last_field[1].payload),
                                     unpack_uint32(last_field[1].payload),
                                     field_ids, byte_idx, data_types[1]) } :
              /\ field_ids' = t.field_ids
              /\ IF t.err # "none"
                 THEN SchemaRaise(t.err)
                      /\ UNCHANGED << byte_idx, data_types >>
                 ELSE /\ byte_idx' = byte_idx + 1
                      /\ data_types' = Some(t.items)
                      /\ UNCHANGED << pc, err, ret >>

\* the total byte width handed to process_payload_type100 for the data
\* key f
data_key_total_bytes_of(f) == f.data_key_total_bytes

\* process_payload_type100 is called on the data key 12 once the
\* Type-101 field has stamped it
type100_call ==
    /\ pc = "idle" /\ call = "process_payload_type101" /\ err = "none"
    /\ "data_key_total_bytes" \in DOMAIN field_ids[12]
    /\ SchemaFixed
    /\ UNCHANGED << field_ids, data_types >>
    /\ call' = "process_payload_type100"
    /\ last_field' = Some(field_ids[12])
    /\ byte_idx' = 0
    /\ pc' = "idle"
    /\ \E r \in { process_payload_type100(
                      field_ids[12].payload,
                      data_key_total_bytes_of(field_ids[12]), field_ids) } :
          IF r.err # "none"
          THEN err' = r.err /\ ret' = None
          ELSE err' = "none" /\ ret' = Some(r.regions)

\* fix_wordsize_zero is called on the regions returned last
fix_call ==
    /\ pc = "idle" /\ err = "none"
    /\ call \in {"process_payload_type100", "fix_wordsize_zero"}
    /\ byte_idx < MaxRepairs
    /\ SchemaFixed
    /\ UNCHANGED << field_ids, data_types, last_field >>
    /\ call' = "fix_wordsize_zero"
    /\ byte_idx' = byte_idx + 1
    /\ pc' = "idle"
    /\ \E r \in { fix_wordsize_zero(
                      ret[1], byte_offsets_of(ret[1]),
                      data_key_total_bytes_of(last_field[1])) } :
          IF r.err # "none"
          THEN err' = r.err /\ ret' = None
          ELSE err' = "none" /\ ret' = Some(r.regions)

NextSchema ==
    \/ type101_enter
    \/ type101_loop
    \/ type100_call
    \/ fix_call

SpecSchema == InitSchema /\ [][NextSchema]_vars

-----------------------------------------------------------------------------
(* properties of process_payload_type101 and of the zero word size repair *)

\* the payload process_payload_type101 was called on, and its records
Payload101 == field_ids[11].payload
Records101 == 0..((Len(Payload101) \div 20) - 1)
RecordType(i) == LittleEndian(Payload101, 20*i, 2)
RecordKey(i) == LittleEndian(Payload101, 20*i + 8, 4)
RecordTotal(i) == LittleEndian(Payload101, 20*i + 12, 4)
RecordLabel(i) == LittleEndian(Payload101, 20*i + 16, 4)

Returned101 == pc = "idle" /\ call = "process_payload_type101"

\* the map returned has one entry per record, keyed by the record's type
OneEntryPerRecord ==
    /\ DOMAIN ret[1] = { RecordType(i) : i \in Records101 }
    /\ Cardinality(DOMAIN ret[1]) = Cardinality(Records101)
    /\ \A i \in Records101 :
          ret[1][RecordType(i)] =
              [num_regions |-> LittleEndian(Payload101, 20*i + 6, 2),
               data_key_ref |-> RecordKey(i),
               total_bytes |-> RecordTotal(i),
               label |-> label_of(field_ids, RecordLabel(i))]

\* the field with the id key is stamped with total
StampedWith(key, total) ==
    /\ key \in DOMAIN field_ids
    /\ "data_key_total_bytes" \in DOMAIN field_ids[key]
    /\ field_ids[key].data_key_total_bytes = total

\* C24 as stated: process_payload_type101 fails unless the payload's
\* length is a multiple of 20 and fails when two records carry the same
\* data field type; when it succeeds the map has one entry per record and,
\* for every record, the field the record references is stamped with that
\* record's total_bytes.
C24_StampOfEveryRecord ==
    Returned101 =>
        /\ Len(Payload101) % 20 # 0 => err = "AssertionError"
        /\ (\E i, j \in Records101 : i # j /\ RecordType(i) = RecordType(j))
              => err # "none"
        /\ err = "none" =>
              /\ OneEntryPerRecord
              /\ \A i \in Records101 :
                    StampedWith(RecordKey(i), RecordTotal(i))

\* C24: process_payload_type101 fails unless the payload's length is a
\* multiple of 20 and fails when two records carry the same data field
\* type; when it succeeds the map has one entry per record and every field
\* a record references is stamped with the total_bytes of the last record
\* of the payload that references it.
C24_StampOfLastRecord ==
    Returned101 =>
        /\ Len(Payload101) % 20 # 0 => err = "AssertionError"
        /\ (\E i, j \in Records101 : i # j /\ RecordType(i) = RecordType(j))
              => err # "none"
        /\ err = "none" =>
              /\ OneEntryPerRecord
              /\ \A i \in Records101 :
                    (\A j \in Records101 :
                        RecordKey(j) = RecordKey(i) => j <= i)
                    => StampedWith(RecordKey(i), RecordTotal(i))

\* two records were decoded and the data key 12 is stamped
C24_Witness ==
    /\ Returned101 /\ err = "none"
    /\ Cardinality(DOMAIN ret[1]) = 2
    /\ StampedWith(12, 8)

\* the payload process_payload_type100 was called on, and its records
Payload100 == field_ids[12].payload
Records100 == 1..(Len(Payload100) \div 36)
RegionType(j) == LittleEndian(Payload100, 36*(j - 1), 2)
RegionWords(j) == LittleEndian(Payload100, 36*(j - 1) + 4, 4)
RegionOffset(j) == LittleEndian(Payload100, 36*(j - 1) + 8, 4)
RegionWordSize(j) == LittleEndian(Payload100, 36*(j - 1) + 20, 4)

Returned100 == pc = "idle" /\ call = "process_payload_type100"

\* the total byte width the Type-101 field declares for the data key 12
DeclaredTotal ==
    RecordTotal(CHOOSE i \in Records101 :
                    /\ RecordKey(i) = 12
                    /\ \A k \in Records101 : RecordKey(k) = 12 => k <= i)

\* the next larger byte_offset among all regions; the declared total for
\* a region with the largest offset
NextOffset(j) ==
    IF \E k \in Records100 : RegionOffset(k) > RegionOffset(j)
    THEN CHOOSE o \in { RegionOffset(k) : k \in Records100 } :
            /\ o > RegionOffset(j)
            /\ \A k \in Records100 :
                  RegionOffset(k) > RegionOffset(j) => o <= RegionOffset(k)
    ELSE DeclaredTotal

\* q is a divided by b, rounded down
IsQuotient(q, a, b) == q * b <= a /\ a < (q + 1) * b

\* some region makes the repair divide by zero
ZeroWords ==
    \E j \in Records100 :
        /\ RegionWordSize(j) = 0 /\ RegionWords(j) = 0
        /\ RegionType(j) \notin DOMAIN REGION_DATA_TYPE_BYTES

\* C25: when a region of the Type-100 payload has word_size = 0, the
\* regions process_payload_type100 returns have every zero word_size
\* replaced, by the static width of the data type when the table has the
\* type, else by (next larger byte_offset among all regions, or the total
\* the Type-101 field has stamped on the data key for the largest offset,
\* minus the region's byte_offset) divided by num_words; every other
\* word_size is kept.
C25_RepairOverAllRegions ==
    (Returned100 /\ Len(Payload100) % 36 = 0 /\ ~ZeroWords) =>
        /\ err = "none"
        /\ StampedWith(12, DeclaredTotal)
        /\ Len(ret[1]) = Cardinality(Records100)
        /\ \A j \in Records100 :
              /\ ret[1][j].byte_offset = RegionOffset(j)
              /\ ret[1][j].num_words = RegionWords(j)
              /\ ret[1][j].data_type = RegionType(j)
              /\ IF RegionWordSize(j) # 0
                 THEN ret[1][j].word_size = RegionWordSize(j)
                 ELSE IF RegionType(j) \in DOMAIN REGION_DATA_TYPE_BYTES
                 THEN ret[1][j].word_size =
                          REGION_DATA_TYPE_BYTES[RegionType(j)]
                 ELSE IsQuotient(ret[1][j].word_size,
                                 NextOffset(j) - RegionOffset(j),
                                 RegionWords(j))

\* a region of unknown type listed before the region with the next larger
\* offset was repaired from that offset, and the region with the largest
\* offset from the declared total
C25_Witness ==
    /\ Returned100 /\ err = "none"
    /\ Len(ret[1]) = 2
    /\ RegionWordSize(1) = 0 /\ RegionWordSize(2) = 0
    /\ RegionType(1) = 1000 /\ RegionType(2) = 1000
    /\ RegionOffset(1) = 4 /\ RegionOffset(2) = 0
    /\ DeclaredTotal = 8
    /\ ret[1][1].word_size = 1 /\ ret[1][2].word_size = 1

\* C26: fix_wordsize_zero applied to regions none of which has
\* word_size = 0, or to the regions an earlier repair has returned, returns
\* them with every field of every region as it was.
C26_RepairIdempotent ==
    [][(call' = "fix_wordsize_zero" /\ byte_idx' = byte_idx + 1) =>
          ((~has_wordsize_zero(ret[1])
            \/ call = "fix_wordsize_zero"
            \/ (call = "process_payload_type100"
                /\ \E j \in Records100 : RegionWordSize(j) = 0))
           => (err' = "none" /\ ret' = ret))]_vars

\* the repair was applied again to a set it had repaired, with one region
\* that had word_size = 0 and one that had not
C26_Witness ==
    /\ pc = "idle" /\ call = "fix_wordsize_zero" /\ err = "none"
    /\ byte_idx = 2
    /\ Len(ret[1]) = 2
    /\ RegionWordSize(1) = 0 /\ ret[1][1].word_size = 2
    /\ RegionWordSize(2) = 1 /\ ret[1][2].word_size = 1

\* C30: process_payload_type100 called on a payload of whole records
\* returns, and every region it returns has word_size > 0.
C30_WordSizePositive ==
    (Returned100 /\ Len(Payload100) % 36 = 0) =>
        /\ err = "none"
        /\ \A j \in 1..Len(ret[1]) : ret[1][j].word_size > 0

=============================================================================
